---------------------------- MODULE Spec2Model ----------------------------
(***************************************************************************)
(* Model of the adaptive prefetch controller (AdaptiveRuntime) of          *)
(* morpheus: the background adaptation loop, the caller's start / stop /   *)
(* hintPhase operations, the performance monitor it drives and a consumer  *)
(* that reads the prefetcher's configuration.                              *)
(*                                                                         *)
(* Three threads take part: the caller of the public operations ("main"),  *)
(* the adaptation thread created by startAdaptation ("loop") and a         *)
(* consumer.  The loop and hintPhase are split at their writes to shared   *)
(* state, because nothing in the source orders those writes against the    *)
(* other threads.                                                          *)
(***************************************************************************)
EXTENDS Integers, Sequences, FiniteSets, TLC

VARIABLES
    config,             \* AdaptiveRuntime::config_ (fixed at construction)
    current_phase,      \* AdaptiveRuntime::current_phase_
    is_adapting,        \* AdaptiveRuntime::is_adapting_
    total_adaptations,  \* AdaptiveRuntime::total_adaptations_
    metrics_history,    \* AdaptiveRuntime::metrics_history_
    prefetcher,         \* *prefetcher_ (or a null pointer)
    adaptation_thread,  \* AdaptiveRuntime::adaptation_thread_
    loop,               \* the adaptation thread: position and locals of adaptationLoop
    main,               \* the calling thread: position inside stopAdaptation / hintPhase
    monitor,            \* *monitor_: initialized_, monitoring_, perf_fds_, samples_
    now,                \* the clock read by getCurrentTimeMs
    stream,             \* the counter values the hardware will deliver (input)
    observed,           \* the (distance, degree) pair the consumer read last
    calls,              \* number of calls made of each public operation (history variable)
    samples_log,        \* every PhaseMetrics ever appended, in order (history variable)
    phase_changes,      \* number of writes of a new phase to current_phase_ (history variable)
    pf_writer,          \* the thread that wrote the distance / the degree last (history variable)
    returned,           \* what the caller's last call returned
    peer,               \* a second Prefetcher instance of the process
    graph               \* a CSRGraph: num_vertices_, num_edges_, row_ptr_, col_idx_

vars == << config, current_phase, is_adapting, total_adaptations, metrics_history,
           prefetcher, adaptation_thread, loop, main, monitor, now, stream,
           observed, calls, samples_log, phase_changes, pf_writer, returned,
           peer, graph >>

-----------------------------------------------------------------------------
(* Bounds of the model *)

\* The clock stops the model at this time (ms).
MaxTime == 160

\* Number of public operations (start, stop, hintPhase) the caller makes.
MaxCalls == 3

\* The smaller history capacity tried (the larger is LargeHistory).
SmallHistory == 3

\* The largest count passed to getRecentMetrics.
MaxCount == 3

\* The longest feature vector passed to classify.
MaxFeatures == 8

\* The larger history capacity tried; it must exceed MIN_SAMPLES for a tick to act
\* and for an eviction to happen on a window a tick reads.
LargeHistory == 11

\* Time at which the input stream changes from its first to its second reading.
ShiftTime == 105

\* The addresses a caller prefetches are 0, 64, ..., 64 * MaxAddrIndex.
MaxAddrIndex == 9

\* The most calls made directly on a strided prefetcher instance.
MaxStridedCalls == 10

\* The most calls made directly on a sequential or pointer-chain instance.
MaxChainCalls == 7

\* Calls made on a PerformanceMonitor used directly.
MaxMonitorCalls == 6

\* Largest number of vertices of a graph, and longest edge list it is built from.
MaxVertices == 4

MaxEdges == 2

\* Largest iteration limit given to PageRank::run.
MaxIterations == 2

-----------------------------------------------------------------------------
(* Program constants *)

\* Config::sampling_interval_ms
SAMPLING_INTERVAL_MS == 1

\* Config::adaptation_interval_ms
ADAPTATION_INTERVAL_MS == 10

\* "Need samples to make decision": metrics_history_.size() >= 10
MIN_SAMPLES == 10

\* std::numeric_limits<uint32_t>::max(), the parent of a vertex not reached.
\* It is only ever compared with vertex numbers; the model uses the largest
\* integer it has.
UINT32_MAX == 2147483647

\* PageRank's default damping factor 0.85 and tolerance 1e-8
DAMPING == << 17, 20 >>

TOLERANCE == << 1, 100000000 >>

\* perf_fds_.size() >= 6: the number of events readCounters needs
NUM_EVENTS == 6

\* prefetch_distance_(1) of a freshly constructed prefetcher
DEFAULT_DISTANCE == 1

\* degree of a freshly constructed prefetcher
DEFAULT_DEGREE == 1

\* if (features.size() < 7): the number of features classify needs
NUM_FEATURES == 7

\* cache_line_size_(64) of a freshly constructed prefetcher
CACHE_LINE_SIZE == 64

\* StridedPrefetcher::HISTORY_SIZE
HISTORY_SIZE == 8

\* IMAPrefetcher::MAX_CHAIN_LENGTH
MAX_CHAIN_LENGTH == 4

-----------------------------------------------------------------------------
(* Exact arithmetic on the double values the controller computes.  A value *)
(* is a pair <<n, d>> with d > 0, standing for n / d.  All values that     *)
(* arise are far from the thresholds they are compared to, so the          *)
(* comparisons agree with IEEE double arithmetic.                          *)
(*                                                                         *)
(* Each operator binds its arguments through a one-element set: they are   *)
(* then values computed once, not expressions computed again at each use.  *)

RECURSIVE GCD(_, _)
GCD(a, b) ==
    CHOOSE g \in { IF p[2] = 0 THEN p[1] ELSE GCD(p[2], p[1] % p[2]) :
                     p \in { <<a, b>> } } : TRUE

Abs(x) == IF x < 0 THEN -x ELSE x

RNorm(n, d) ==
    CHOOSE r \in { IF q[3] = 0 THEN <<0, 1>> ELSE <<q[1] \div q[3], q[2] \div q[3]>> :
                     q \in { <<p[1], p[2], GCD(Abs(p[1]), p[2])>> : p \in { <<n, d>> } } } :
        TRUE

RInt(n) == <<n, 1>>

RAdd(a, b) ==
    CHOOSE r \in { RNorm(p[1][1] * p[2][2] + p[2][1] * p[1][2], p[1][2] * p[2][2]) :
                     p \in { <<a, b>> } } : TRUE

RSub(a, b) ==
    CHOOSE r \in { RNorm(p[1][1] * p[2][2] - p[2][1] * p[1][2], p[1][2] * p[2][2]) :
                     p \in { <<a, b>> } } : TRUE

RDivInt(a, k) ==
    CHOOSE r \in { RNorm(p[1][1], p[1][2] * p[2]) : p \in { <<a, k>> } } : TRUE

RGt(a, b) == \E p \in { <<a, b>> } : p[1][1] * p[2][2] > p[2][1] * p[1][2]

RLt(a, b) == \E p \in { <<a, b>> } : p[1][1] * p[2][2] < p[2][1] * p[1][2]

RLe(a, b) == \E p \in { <<a, b>> } : p[1][1] * p[2][2] <= p[2][1] * p[1][2]

-----------------------------------------------------------------------------
(* ExecutionPhase *)

UNKNOWN == "UNKNOWN"
DENSE_SEQUENTIAL == "DENSE_SEQUENTIAL"
SPARSE_RANDOM == "SPARSE_RANDOM"
POINTER_CHASING == "POINTER_CHASING"

ExecutionPhase == {UNKNOWN, DENSE_SEQUENTIAL, SPARSE_RANDOM, POINTER_CHASING}

-----------------------------------------------------------------------------
(* TrainedPhaseClassifier (namespace morpheus) *)

\* morpheus::ExecutionPhase
DenseSequential == "DenseSequential"
SparseRandom == "SparseRandom"
PointerChasing == "PointerChasing"
Unknown == "Unknown"

\* The size guard of classify letting vectors of 3 to 6 elements through.
tooFewFeatures_Three(features) == Len(features) < 3

\* The size guard of classify letting vectors of 5 and 6 elements through.
tooFewFeatures_Five(features) == Len(features) < 5

\* if (features.size() < 7)
tooFewFeatures(features) == Len(features) < NUM_FEATURES

\* The decision tree with its first comparison strict.
decisionTree_Strict(l3_miss_rate, ipc, branch_miss_rate) ==
    IF RLt(l3_miss_rate, <<8, 1000>>)
      THEN IF RLe(ipc, <<1218, 1000>>)
             THEN IF RLe(branch_miss_rate, <<43, 1000>>) THEN SparseRandom
                  ELSE IF RLe(l3_miss_rate, <<4, 1000>>) THEN DenseSequential
                  ELSE PointerChasing
             ELSE IF RLe(l3_miss_rate, <<3, 1000>>) THEN DenseSequential
                  ELSE IF RLe(branch_miss_rate, <<35, 1000>>) THEN DenseSequential
                  ELSE PointerChasing
      ELSE IF RLe(ipc, <<1044, 1000>>)
             THEN IF RLe(branch_miss_rate, <<52, 1000>>) THEN SparseRandom
                  ELSE PointerChasing
             ELSE IF RLe(l3_miss_rate, <<15, 1000>>) THEN PointerChasing
                  ELSE SparseRandom

\* classify: the "auto-generated decision tree rules" over features[0..2].
decisionTree(l3_miss_rate, ipc, branch_miss_rate) ==
    IF RLe(l3_miss_rate, <<8, 1000>>)
      THEN IF RLe(ipc, <<1218, 1000>>)
             THEN IF RLe(branch_miss_rate, <<43, 1000>>) THEN SparseRandom
                  ELSE IF RLe(l3_miss_rate, <<4, 1000>>) THEN DenseSequential
                  ELSE PointerChasing
             ELSE IF RLe(l3_miss_rate, <<3, 1000>>) THEN DenseSequential
                  ELSE IF RLe(branch_miss_rate, <<35, 1000>>) THEN DenseSequential
                  ELSE PointerChasing
      ELSE IF RLe(ipc, <<1044, 1000>>)
             THEN IF RLe(branch_miss_rate, <<52, 1000>>) THEN SparseRandom
                  ELSE PointerChasing
             ELSE IF RLe(l3_miss_rate, <<15, 1000>>) THEN PointerChasing
                  ELSE SparseRandom

\* TrainedPhaseClassifier::classify
classify(features) ==
    IF tooFewFeatures(features) THEN Unknown
    ELSE decisionTree(features[1], features[2], features[3])

-----------------------------------------------------------------------------
(* PerformanceCounters: the readings the counter source can deliver *)

\* A default-constructed PerformanceCounters: every member is 0.
ZeroCounters ==
    [ cycles |-> 0, instructions |-> 0,
      l1_cache_hits |-> 0, l1_cache_misses |-> 0,
      l2_cache_hits |-> 0, l2_cache_misses |-> 0,
      l3_cache_hits |-> 0, l3_cache_misses |-> 0,
      branches |-> 0, branch_misses |-> 0,
      prefetch_attempts |-> 0, prefetch_hits |-> 0 ]

\* Dense, high-locality behaviour: 9 of 9 accesses hit at every level, IPC 2,
\* 9 of 9 prefetches useful.
DenseReading ==
    [ cycles |-> 9, instructions |-> 20,
      l1_cache_hits |-> 9, l1_cache_misses |-> 0,
      l2_cache_hits |-> 9, l2_cache_misses |-> 0,
      l3_cache_hits |-> 9, l3_cache_misses |-> 0,
      branches |-> 9, branch_misses |-> 0,
      prefetch_attempts |-> 9, prefetch_hits |-> 9 ]

\* Dependent accesses: 2 of 9 accesses hit, IPC 0.5, 1 of 9 prefetches useful.
PointerReading ==
    [ cycles |-> 9, instructions |-> 5,
      l1_cache_hits |-> 2, l1_cache_misses |-> 7,
      l2_cache_hits |-> 2, l2_cache_misses |-> 7,
      l3_cache_hits |-> 2, l3_cache_misses |-> 7,
      branches |-> 9, branch_misses |-> 1,
      prefetch_attempts |-> 9, prefetch_hits |-> 1 ]

Readings == {DenseReading, PointerReading}

\* What the hardware counters hold at time t.
HardwareCounters(t) == IF t < stream.shift THEN stream.first ELSE stream.second

-----------------------------------------------------------------------------
(* AdaptiveRuntime: the pure parts *)

\* extractMetrics with the hit rates converted to double before dividing.
extractMetrics_DoubleDivision(sample, timestamp) ==
    [ timestamp_ms |-> timestamp,
      l1_hit_rate |->
          RNorm(sample.l1_cache_hits,
                sample.l1_cache_hits + sample.l1_cache_misses + 1),
      l2_hit_rate |->
          RNorm(sample.l2_cache_hits,
                sample.l2_cache_hits + sample.l2_cache_misses + 1),
      l3_hit_rate |->
          RNorm(sample.l3_cache_hits,
                sample.l3_cache_hits + sample.l3_cache_misses + 1),
      instructions_per_cycle |-> RNorm(sample.instructions, sample.cycles + 1),
      branch_accuracy |->
          RSub(RInt(1), RNorm(sample.branch_misses, sample.branches + 1)),
      prefetch_useful_rate |->
          RNorm(sample.prefetch_hits, sample.prefetch_attempts + 1) ]

\* extractMetrics.  The three cache hit rates divide one uint64_t by another
\* (integer division) and convert the quotient to double; the other three
\* rates convert to double before dividing.
extractMetrics(sample, timestamp) ==
    [ timestamp_ms |-> timestamp,
      l1_hit_rate |->
          RInt(sample.l1_cache_hits \div
               (sample.l1_cache_hits + sample.l1_cache_misses + 1)),
      l2_hit_rate |->
          RInt(sample.l2_cache_hits \div
               (sample.l2_cache_hits + sample.l2_cache_misses + 1)),
      l3_hit_rate |->
          RInt(sample.l3_cache_hits \div
               (sample.l3_cache_hits + sample.l3_cache_misses + 1)),
      instructions_per_cycle |-> RNorm(sample.instructions, sample.cycles + 1),
      branch_accuracy |->
          RSub(RInt(1), RNorm(sample.branch_misses, sample.branches + 1)),
      prefetch_useful_rate |->
          RNorm(sample.prefetch_hits, sample.prefetch_attempts + 1) ]

\* The sum of one member over a sequence of PhaseMetrics.  (The sum of the
\* tail is bound through a one-element set, so that it is a value computed
\* once and not an expression computed at each of its uses.)
RECURSIVE SumField(_, _)
SumField(history, member) ==
    IF history = << >> THEN RInt(0)
    ELSE CHOOSE sum \in { RAdd(Head(history)[member], rest) :
                             rest \in { SumField(Tail(history), member) } } : TRUE

\* computeAverageMetrics, on a non-empty history.
computeAverageMetrics(history) ==
    LET count == Len(history) IN
    [ timestamp_ms |-> history[Len(history)].timestamp_ms,
      l1_hit_rate |-> RDivInt(SumField(history, "l1_hit_rate"), count),
      l2_hit_rate |-> RDivInt(SumField(history, "l2_hit_rate"), count),
      l3_hit_rate |-> RDivInt(SumField(history, "l3_hit_rate"), count),
      instructions_per_cycle |->
          RDivInt(SumField(history, "instructions_per_cycle"), count),
      branch_accuracy |-> RDivInt(SumField(history, "branch_accuracy"), count),
      prefetch_useful_rate |->
          RDivInt(SumField(history, "prefetch_useful_rate"), count) ]

\* detectExecutionPhase with an unclear window left unclassified.
detectExecutionPhase_DefaultUnknown(metrics) ==
    CHOOSE phase \in
        { IF RGt(m.l1_hit_rate, <<85, 100>>) THEN DENSE_SEQUENTIAL
          ELSE IF RGt(m.l1_hit_rate, <<50, 100>>)
                  /\ RGt(m.prefetch_useful_rate, <<6, 10>>) THEN SPARSE_RANDOM
          ELSE IF RLt(m.prefetch_useful_rate, <<4, 10>>) THEN POINTER_CHASING
          ELSE UNKNOWN : m \in { metrics } } : TRUE

\* detectExecutionPhase
detectExecutionPhase(metrics) ==
    CHOOSE phase \in
        { IF RGt(m.l1_hit_rate, <<85, 100>>) THEN DENSE_SEQUENTIAL
          ELSE IF RGt(m.l1_hit_rate, <<50, 100>>)
                  /\ RGt(m.prefetch_useful_rate, <<6, 10>>) THEN SPARSE_RANDOM
          ELSE IF RLt(m.prefetch_useful_rate, <<4, 10>>) THEN POINTER_CHASING
          ELSE SPARSE_RANDOM : m \in { metrics } } : TRUE

\* storeInHistory with the eviction taking the newest entry (pop_back).
storeInHistory_PopBack(history, metrics, history_size) ==
    LET pushed == Append(history, metrics) IN
    IF Len(pushed) > history_size THEN SubSeq(pushed, 1, Len(pushed) - 1) ELSE pushed

\* "Store in history": push_back, then pop_front when over capacity.
storeInHistory(history, metrics, history_size) ==
    LET pushed == Append(history, metrics) IN
    IF Len(pushed) > history_size THEN Tail(pushed) ELSE pushed

\* The guard of the adaptation step satisfied by any sample.
enoughSamples_Any(history) == Len(history) >= 1

\* The guard of the adaptation step, one sample too early.
enoughSamples_Nine(history) == Len(history) >= MIN_SAMPLES - 1

\* The guard of the adaptation step.
enoughSamples(history) == Len(history) >= MIN_SAMPLES

\* The comparison left out: every tick with enough samples switches.
phaseDiffers_Always(detected_phase, phase) == TRUE

\* if (detected_phase != current_phase_)
phaseDiffers(detected_phase, phase) == detected_phase # phase

\* The guard of the sampling step.
samplingDue(current_time, last_adaptation_time, sampling_interval_ms) ==
    current_time - last_adaptation_time >= sampling_interval_ms

\* updatePrefetchingStrategy: the phases its switch has a case for.
hasStrategy(phase) == phase \in {DENSE_SEQUENTIAL, SPARSE_RANDOM, POINTER_CHASING}

\* strategyDistance with the distances of two cases exchanged.
strategyDistance_Swapped(phase) ==
    CASE phase = DENSE_SEQUENTIAL -> 128
      [] phase = SPARSE_RANDOM -> 256
      [] phase = POINTER_CHASING -> 64

\* updatePrefetchingStrategy: the argument of setPrefetchDistance.
strategyDistance(phase) ==
    CASE phase = DENSE_SEQUENTIAL -> 256
      [] phase = SPARSE_RANDOM -> 128
      [] phase = POINTER_CHASING -> 64

\* updatePrefetchingStrategy: the argument of setPrefetchDegree.
strategyDegree(phase) ==
    CASE phase = DENSE_SEQUENTIAL -> 4
      [] phase = SPARSE_RANDOM -> 2
      [] phase = POINTER_CHASING -> 1

\* Prefetcher::setPrefetchDistance
setPrefetchDistance(pf, distance) == [pf EXCEPT !.distance = distance]

\* Prefetcher::setPrefetchDegree
setPrefetchDegree(pf, degree) == [pf EXCEPT !.degree = degree]

-----------------------------------------------------------------------------
(* AdaptiveRuntime: the introspection functions *)

\* The loop of getStrategyEffectiveness: avg_useful_rate += metric.prefetch_useful_rate
\* for the entries from index i on, in order.
RECURSIVE AccumulateUsefulRate(_, _, _)
AccumulateUsefulRate(history, i, avg_useful_rate) ==
    IF i > Len(history) THEN avg_useful_rate
    ELSE CHOOSE total \in
            { AccumulateUsefulRate(history, i + 1, acc) :
                acc \in { RAdd(avg_useful_rate, history[i].prefetch_useful_rate) } } : TRUE

\* getStrategyEffectiveness returning the sentinel for an empty history only.
getStrategyEffectiveness_OneEnough(history) ==
    IF Len(history) < 1 THEN RInt(0)
    ELSE RDivInt(AccumulateUsefulRate(history, 1, RInt(0)), Len(history))

\* getStrategyEffectiveness
getStrategyEffectiveness(history) ==
    IF Len(history) < 2 THEN RInt(0)
    ELSE RDivInt(AccumulateUsefulRate(history, 1, RInt(0)), Len(history))

\* getRecentMetrics copying from the front of the history.
getRecentMetrics_FromFront(history, count) ==
    [ i \in 1 .. (IF Len(history) > count THEN count ELSE Len(history)) |-> history[i] ]

\* getRecentMetrics: the entries from index start (0-based) to the end.
getRecentMetrics(history, count) ==
    LET start == IF Len(history) > count THEN Len(history) - count ELSE 0
    IN  [ i \in 1 .. (Len(history) - start) |-> history[start + i] ]

-----------------------------------------------------------------------------
(* The prefetchers: their private predictive state *)

\* PrefetchStrategy tags
Sequential == "Sequential"
Strided == "Strided"
IMA == "IMA"

\* A freshly constructed prefetcher of the given variant (or a null pointer):
\* distance 1, no address observed, no stride detected, nothing learned.
NewPrefetcher(null, strategy) ==
    [ null |-> null, strategy |-> strategy,
      distance |-> DEFAULT_DISTANCE, degree |-> DEFAULT_DEGREE,
      stride |-> CACHE_LINE_SIZE,
      recent_addresses |-> << >>, detected_stride |-> 0,
      pointer_chains |-> << >> ]

\* The differences between consecutive addresses of a window.
Deltas(addresses) ==
    [ i \in 1 .. (Len(addresses) - 1) |-> addresses[i + 1] - addresses[i] ]

\* detectStride forgetting the detected stride at an inconsistent window.
detectStride_Erasing(pf, addr) ==
    LET pushed == Append(pf.recent_addresses, addr) IN
    IF Len(pushed) < HISTORY_SIZE
      THEN [pf EXCEPT !.recent_addresses = pushed]
      ELSE LET strides == Deltas(pushed)
               consistent == \A i \in 2 .. Len(strides) : strides[i] = strides[1]
           IN  [pf EXCEPT
                  !.detected_stride =
                      IF Len(strides) > 0 /\ consistent /\ strides[1] > 0
                        THEN strides[1] ELSE 0,
                  !.recent_addresses =
                      IF Len(pushed) > HISTORY_SIZE THEN Tail(pushed) ELSE pushed]

\* StridedPrefetcher::detectStride: push the address; with fewer than
\* HISTORY_SIZE addresses nothing more happens; otherwise the strides over
\* the whole queue are compared, an equal positive stride is adopted, and the
\* oldest address is dropped when the queue holds more than HISTORY_SIZE.
detectStride(pf, addr) ==
    LET pushed == Append(pf.recent_addresses, addr) IN
    IF Len(pushed) < HISTORY_SIZE
      THEN [pf EXCEPT !.recent_addresses = pushed]
      ELSE LET strides == Deltas(pushed)
               consistent == \A i \in 2 .. Len(strides) : strides[i] = strides[1]
           IN  [pf EXCEPT
                  !.detected_stride =
                      IF Len(strides) > 0 /\ consistent /\ strides[1] > 0
                        THEN strides[1] ELSE @,
                  !.recent_addresses =
                      IF Len(pushed) > HISTORY_SIZE THEN Tail(pushed) ELSE pushed]

\* learnPointerChain replacing the newest entry of a full chain.
learnPointerChain_ReplacingNewest(pf, base_addr, target_addr) ==
    LET chain == IF base_addr \in DOMAIN pf.pointer_chains
                   THEN pf.pointer_chains[base_addr] ELSE << >>
        learned == IF Len(chain) < MAX_CHAIN_LENGTH
                     THEN Append(chain, target_addr)
                     ELSE Append(SubSeq(chain, 1, Len(chain) - 1), target_addr)
    IN  [pf EXCEPT !.pointer_chains =
            [ a \in (DOMAIN pf.pointer_chains) \cup {base_addr} |->
                IF a = base_addr THEN learned ELSE pf.pointer_chains[a] ]]

\* IMAPrefetcher::learnPointerChain: append the target to the chain of the
\* base address (created empty by operator[]), replacing the oldest entry
\* when the chain is full.
learnPointerChain(pf, base_addr, target_addr) ==
    LET chain == IF base_addr \in DOMAIN pf.pointer_chains
                   THEN pf.pointer_chains[base_addr] ELSE << >>
        learned == IF Len(chain) < MAX_CHAIN_LENGTH
                     THEN Append(chain, target_addr)
                     ELSE Append(Tail(chain), target_addr)
    IN  [pf EXCEPT !.pointer_chains =
            [ a \in (DOMAIN pf.pointer_chains) \cup {base_addr} |->
                IF a = base_addr THEN learned ELSE pf.pointer_chains[a] ]]

\* A prefetcher that holds no predictive state.
NoPredictions(pf) ==
    /\ pf.recent_addresses = << >>
    /\ pf.detected_stride = 0
    /\ pf.pointer_chains = << >>

\* configure(distance, stride), the same in the three variants.
configure(pf, distance, stride) ==
    [pf EXCEPT !.distance = distance, !.stride = stride]

\* prefetch spacing its hints by cache_line_size_ whatever was detected.
StridedPrefetcher_prefetch_FixedStride(pf, addr) ==
    LET after == detectStride(pf, addr) IN
    [ pf |-> after,
      hints |-> [ i \in 1 .. after.distance |-> addr + i * after.stride ] ]

\* StridedPrefetcher::prefetch: detectStride, then prefetch_distance_ hints
\* spaced by the detected stride, or by cache_line_size_ while it is 0.
\* The result is the instance after the call and the hints issued, in order.
StridedPrefetcher_prefetch(pf, addr) ==
    LET after == detectStride(pf, addr) IN
    [ pf |-> after,
      hints |->
          IF after.detected_stride > 0
            THEN [ i \in 1 .. after.distance |-> addr + i * after.detected_stride ]
            ELSE [ i \in 1 .. after.distance |-> addr + i * after.stride ] ]

\* IMAPrefetcher::prefetch: the first prefetch_distance_ entries of the chain
\* learned for the address, or the next cache line when there is no chain.
IMAPrefetcher_prefetch(pf, addr) ==
    [ pf |-> pf,
      hints |->
          IF addr \in DOMAIN pf.pointer_chains
            THEN LET chain == pf.pointer_chains[addr]
                 IN  SubSeq(chain, 1, IF Len(chain) < pf.distance
                                        THEN Len(chain) ELSE pf.distance)
            ELSE << addr + pf.stride >> ]

\* prefetch starting its hints at the base address itself.
SequentialPrefetcher_prefetch_FromBase(pf, addr) ==
    [ pf |-> pf,
      hints |-> [ i \in 1 .. pf.distance |-> addr + (i - 1) * pf.stride ] ]

\* SequentialPrefetcher::prefetch
SequentialPrefetcher_prefetch(pf, addr) ==
    [ pf |-> pf,
      hints |-> [ i \in 1 .. pf.distance |-> addr + i * pf.stride ] ]

\* prefetch(addr), dispatched on the variant of the instance.
prefetch(pf, addr) ==
    CASE pf.strategy = Strided -> StridedPrefetcher_prefetch(pf, addr)
      [] pf.strategy = IMA -> IMAPrefetcher_prefetch(pf, addr)
      [] pf.strategy = Sequential -> SequentialPrefetcher_prefetch(pf, addr)

\* reset clearing the detected stride and keeping the address window.
StridedPrefetcher_reset_KeepingWindow(pf) == [pf EXCEPT !.detected_stride = 0]

\* StridedPrefetcher::reset
StridedPrefetcher_reset(pf) ==
    [pf EXCEPT !.detected_stride = 0, !.recent_addresses = << >>]

\* IMAPrefetcher::reset
IMAPrefetcher_reset(pf) == [pf EXCEPT !.pointer_chains = << >>]

\* SequentialPrefetcher::reset
SequentialPrefetcher_reset(pf) == pf

\* reset(), dispatched on the variant of the instance.
reset(pf) ==
    CASE pf.strategy = Strided -> StridedPrefetcher_reset(pf)
      [] pf.strategy = IMA -> IMAPrefetcher_reset(pf)
      [] pf.strategy = Sequential -> SequentialPrefetcher_reset(pf)

-----------------------------------------------------------------------------
(* PerformanceSample: the derived metrics *)

\* The results a division of doubles has with a zero divisor.
NotANumber == << 0, 0 >>
Infinity == << 1, 0 >>

\* static_cast<double>(n) / d on unsigned counters, as IEEE 754 defines it.
Divide(n, d) ==
    IF d # 0 THEN RNorm(n, d)
    ELSE IF n = 0 THEN NotANumber ELSE Infinity

\* ipc with no test of the divisor.
ipc_Unguarded(sample) == Divide(sample.instructions, sample.cycles)

\* PerformanceSample::ipc
ipc(sample) ==
    IF sample.cycles # 0 THEN RNorm(sample.instructions, sample.cycles) ELSE RInt(0)

\* PerformanceSample::l1_miss_rate
l1_miss_rate(sample) ==
    IF sample.instructions # 0 THEN RNorm(sample.l1_misses, sample.instructions)
    ELSE RInt(0)

\* PerformanceSample::l2_miss_rate
l2_miss_rate(sample) ==
    IF sample.instructions # 0 THEN RNorm(sample.l2_misses, sample.instructions)
    ELSE RInt(0)

\* PerformanceSample::l3_miss_rate
l3_miss_rate(sample) ==
    IF sample.instructions # 0 THEN RNorm(sample.l3_misses, sample.instructions)
    ELSE RInt(0)

\* PerformanceSample::branch_miss_rate
branch_miss_rate(sample) ==
    IF sample.instructions # 0 THEN RNorm(sample.branch_misses, sample.instructions)
    ELSE RInt(0)

-----------------------------------------------------------------------------
(* PerformanceMonitor *)

\* PerformanceMonitor::extractFeatures, on the samples_ of the monitor: the
\* features of the most recent sample, none when there is no sample.
extractFeatures(samples) ==
    IF samples = << >> THEN << >>
    ELSE LET sample == samples[Len(samples)]
         IN  << l3_miss_rate(sample), ipc(sample), branch_miss_rate(sample),
                RInt(sample.l1_misses), RInt(sample.l2_misses) >>

\* initialize that marks the monitor initialized whatever could be opened.
initialize_Unchecked(m, opened) ==
    IF m.initialized THEN m
    ELSE [m EXCEPT !.perf_fds = m.perf_fds + opened, !.initialized = TRUE]

\* PerformanceMonitor::initialize, when `opened` of the six events could be
\* opened: the descriptors are appended to perf_fds_, and the monitor is
\* initialized unless perf_fds_ is empty.  The call returns initialized_.
initialize(m, opened) ==
    IF m.initialized THEN m
    ELSE [m EXCEPT !.perf_fds = m.perf_fds + opened,
                   !.initialized = (m.perf_fds + opened # 0)]

\* PerformanceMonitor::startMonitoring, when every ioctl succeeds
startMonitoring(m) ==
    IF ~m.initialized \/ m.monitoring THEN m
    ELSE [m EXCEPT !.monitoring = TRUE, !.samples = << >>]

\* PerformanceMonitor::getCurrentPhase
getCurrentPhase(m) ==
    IF m.samples = << >> THEN UNKNOWN ELSE m.samples[Len(m.samples)].phase

\* PerformanceMonitor::stopMonitoring
stopMonitoring(m) ==
    IF ~m.monitoring THEN m ELSE [m EXCEPT !.monitoring = FALSE]

\* PerformanceMonitor::readCounters: the hardware is read only when all six
\* events were opened.  Otherwise the counters of the sample are never
\* assigned; they have no initializer, so the sample holds whatever the
\* memory held (stream.garbage).
readCounters(m, t) ==
    IF m.perf_fds >= NUM_EVENTS THEN HardwareCounters(t) ELSE stream.garbage

-----------------------------------------------------------------------------
(* CSRGraph.  A std::vector is a sequence: element i of the vector is      *)
(* element i + 1 of the sequence.                                          *)

At(vector, i) == vector[i + 1]

\* The elements of a sequence.
Range(seq) == { seq[i] : i \in 1 .. Len(seq) }

\* CSRGraph::CSRGraph: no vertices, no edges, empty vectors.  `edges` is the
\* edge list the graph was built from (history).
CSRGraph ==
    [ num_vertices |-> 0, num_edges |-> 0, row_ptr |-> << >>, col_idx |-> << >>,
      edges |-> << >> ]

\* std::vector::resize: cut, or extended with zeros.
Resize(vector, size) ==
    [ i \in 1 .. size |-> IF i <= Len(vector) THEN vector[i] ELSE 0 ]

\* buildCSR, "Count degrees": sources out of range are not counted.
Degrees(num_vertices, src_vertices) ==
    [ v \in 1 .. num_vertices |->
        Cardinality({ i \in 1 .. Len(src_vertices) : src_vertices[i] = v - 1 }) ]

\* buildCSR, "Build row pointer": row_ptr_[0 .. i].
RECURSIVE RowPointer(_, _)
RowPointer(degrees, i) ==
    IF i = 0 THEN << 0 >>
    ELSE LET before == RowPointer(degrees, i - 1)
         IN  Append(before, before[i] + degrees[i])

\* buildCSR, "Build column index": the loop from edge i on.  An edge whose
\* source is out of range is skipped, and leaves an entry of col_idx_ as
\* resize made it.
RECURSIVE FillColumns(_, _, _, _, _, _)
FillColumns(num_vertices, row_ptr, src_vertices, dest_vertices, filled, i) ==
    IF i > Len(src_vertices) THEN filled.col_idx
    ELSE LET src == src_vertices[i]
             dest == dest_vertices[i]
             pos == At(row_ptr, src) + At(filled.current_pos, src)
         IN  IF src < num_vertices
             THEN FillColumns(num_vertices, row_ptr, src_vertices, dest_vertices,
                              [ col_idx |-> [filled.col_idx EXCEPT ![pos + 1] = dest],
                                current_pos |->
                                    [filled.current_pos EXCEPT ![src + 1] = @ + 1] ],
                              i + 1)
             ELSE FillColumns(num_vertices, row_ptr, src_vertices, dest_vertices,
                              filled, i + 1)

\* CSRGraph::buildCSR without weights
buildCSR(g, num_vertices, src_vertices, dest_vertices) ==
    LET num_edges == Len(src_vertices)
        row_ptr == RowPointer(Degrees(num_vertices, src_vertices), num_vertices)
    IN  [ g EXCEPT
            !.num_vertices = num_vertices,
            !.num_edges = num_edges,
            !.row_ptr = row_ptr,
            !.col_idx = FillColumns(num_vertices, row_ptr, src_vertices, dest_vertices,
                                    [ col_idx |-> Resize(g.col_idx, num_edges),
                                      current_pos |-> [ v \in 1 .. num_vertices |-> 0 ] ],
                                    1) ]

\* CSRGraph::buildFromEdges
buildFromEdges(g, num_vertices, edges) ==
    [ buildCSR(g, num_vertices,
               [ i \in 1 .. Len(edges) |-> edges[i][1] ],
               [ i \in 1 .. Len(edges) |-> edges[i][2] ])
      EXCEPT !.edges = edges ]

\* CSRGraph::getDegree
getDegree(g, vertex) ==
    IF vertex >= g.num_vertices THEN 0
    ELSE At(g.row_ptr, vertex + 1) - At(g.row_ptr, vertex)

\* CSRGraph::getNeighbors, as far as its callers read it: getDegree(vertex)
\* entries of col_idx_ from row_ptr_[vertex] on.
getNeighbors(g, vertex) ==
    [ j \in 1 .. getDegree(g, vertex) |-> At(g.col_idx, At(g.row_ptr, vertex) + j - 1) ]

\* CSRGraph::validate
CSRGraph_validate(g) ==
    IF Len(g.row_ptr) # g.num_vertices + 1 THEN FALSE
    ELSE IF At(g.row_ptr, 0) # 0 \/ At(g.row_ptr, g.num_vertices) # g.num_edges
         THEN FALSE
    ELSE IF \E i \in 0 .. g.num_vertices - 1 : At(g.row_ptr, i) > At(g.row_ptr, i + 1)
         THEN FALSE
    ELSE IF \E k \in 1 .. Len(g.col_idx) : g.col_idx[k] >= g.num_vertices
         THEN FALSE
    ELSE TRUE

-----------------------------------------------------------------------------
(* BFS *)

\* BFSResult::BFSResult(num_vertices); next_frontier is the local of
\* bfsLevelSync the loops fill.
BFSResult(num_vertices) ==
    [ distances |-> [ v \in 1 .. num_vertices |-> -1 ],
      parents |-> [ v \in 1 .. num_vertices |-> UINT32_MAX ],
      next_frontier |-> << >> ]

\* The neighbour loop recording the depth of the frontier, not the one below it.
RECURSIVE visitNeighbors_AtDepth(_, _, _, _, _)
visitNeighbors_AtDepth(result, vertex, neighbors, i, depth) ==
    IF i > Len(neighbors) THEN result
    ELSE LET neighbor == neighbors[i]
         IN  IF At(result.distances, neighbor) = -1
             THEN visitNeighbors_AtDepth(
                      [ result EXCEPT !.distances[neighbor + 1] = depth,
                                      !.parents[neighbor + 1] = vertex,
                                      !.next_frontier = Append(@, neighbor) ],
                      vertex, neighbors, i + 1, depth)
             ELSE visitNeighbors_AtDepth(result, vertex, neighbors, i + 1, depth)

\* bfsLevelSync, the loop over the neighbours of a frontier vertex, from
\* neighbour i on.
RECURSIVE visitNeighbors(_, _, _, _, _)
visitNeighbors(result, vertex, neighbors, i, depth) ==
    IF i > Len(neighbors) THEN result
    ELSE LET neighbor == neighbors[i]
         IN  IF At(result.distances, neighbor) = -1
             THEN visitNeighbors(
                      [ result EXCEPT !.distances[neighbor + 1] = depth + 1,
                                      !.parents[neighbor + 1] = vertex,
                                      !.next_frontier = Append(@, neighbor) ],
                      vertex, neighbors, i + 1, depth)
             ELSE visitNeighbors(result, vertex, neighbors, i + 1, depth)

\* bfsLevelSync, the loop over current_frontier, from its element k on.
RECURSIVE visitFrontier(_, _, _, _, _)
visitFrontier(g, result, current_frontier, k, depth) ==
    IF k > Len(current_frontier) THEN result
    ELSE visitFrontier(g,
                       visitNeighbors(result, current_frontier[k],
                                      getNeighbors(g, current_frontier[k]), 1, depth),
                       current_frontier, k + 1, depth)

\* bfsLevelSync, the while loop.
RECURSIVE visitLevels(_, _, _, _)
visitLevels(g, result, current_frontier, depth) ==
    IF current_frontier = << >> THEN result
    ELSE LET visited == visitFrontier(g, [result EXCEPT !.next_frontier = << >>],
                                      current_frontier, 1, depth)
         IN  visitLevels(g, visited, visited.next_frontier, depth + 1)

\* BFS::bfsLevelSync
bfsLevelSync(g, source) ==
    visitLevels(g,
                [ BFSResult(g.num_vertices) EXCEPT !.distances[source + 1] = 0,
                                                   !.parents[source + 1] = source ],
                << source >>, 0)

\* BFS::run: std::invalid_argument for a source out of range.
BFS_run(g, source_vertex) ==
    IF source_vertex >= g.num_vertices
    THEN [ thrown |-> TRUE, distances |-> << >>, parents |-> << >> ]
    ELSE LET result == bfsLevelSync(g, source_vertex)
         IN  [ thrown |-> FALSE, distances |-> result.distances,
               parents |-> result.parents ]

\* BFS::validate
BFS_validate(g, result, source) ==
    IF source >= g.num_vertices THEN FALSE
    ELSE IF At(result.distances, source) # 0 \/ At(result.parents, source) # source
         THEN FALSE
    ELSE \A i \in 0 .. g.num_vertices - 1 :
            \/ At(result.distances, i) = -1
            \/ At(result.parents, i) = i
            \/ LET parent == At(result.parents, i)
               IN  /\ parent < g.num_vertices
                   /\ At(result.distances, parent) = At(result.distances, i) - 1
                   /\ i \in Range(getNeighbors(g, parent))

-----------------------------------------------------------------------------
(* PageRank.  A rank vector is a sequence of numerators over one common   *)
(* denominator, so every value is exact.                                   *)

LCM(a, b) == (a * b) \div GCD(a, b)

\* The least common multiple of the positive out-degrees of vertices 0 .. v - 1.
RECURSIVE DegreeMultiple(_, _)
DegreeMultiple(g, v) ==
    IF v = 0 THEN 1
    ELSE IF getDegree(g, v - 1) > 0
         THEN LCM(DegreeMultiple(g, v - 1), getDegree(g, v - 1))
         ELSE DegreeMultiple(g, v - 1)

RECURSIVE SumTo(_, _)
SumTo(f, k) == IF k = 0 THEN 0 ELSE f[k] + SumTo(f, k - 1)

Occurrences(seq, x) == Cardinality({ k \in 1 .. Len(seq) : seq[k] = x })

\* The same ranks over a denominator `factor` times as large.
Rescale(ranks, factor) ==
    [ scores |-> [ j \in 1 .. Len(ranks.scores) |-> ranks.scores[j] * factor ],
      den |-> ranks.den * factor ]

\* The factor by which one iteration on g multiplies the denominator.
IterationScale(g) == DAMPING[2] * g.num_vertices * DegreeMultiple(g, g.num_vertices)

\* PageRank::initialize: every rank is 1.0 / numVertices
PageRank_initialize(g) ==
    [ scores |-> [ j \in 1 .. g.num_vertices |-> 1 ], den |-> g.num_vertices ]

\* PageRank::run, the body of the loop up to the convergence check: the new
\* ranks are base_rank, plus damping * rank / degree from every vertex that
\* has the vertex as a neighbour (once for each such edge), plus
\* damping * rank / numVertices from every vertex without neighbours.
PageRank_iterate(g, old_ranks) ==
    LET n == g.num_vertices
        multiple == DegreeMultiple(g, n)
        base_rank == (DAMPING[2] - DAMPING[1]) * old_ranks.den * multiple
        contribution(i) ==
            IF getDegree(g, i) > 0
            THEN DAMPING[1] * At(old_ranks.scores, i) * n * (multiple \div getDegree(g, i))
            ELSE DAMPING[1] * At(old_ranks.scores, i) * multiple
        received(j) ==
            [ v \in 1 .. n |->
                IF getDegree(g, v - 1) > 0
                THEN Occurrences(getNeighbors(g, v - 1), j) * contribution(v - 1)
                ELSE contribution(v - 1) ]
    IN  [ scores |-> [ j \in 1 .. n |-> base_rank + SumTo(received(j - 1), n) ],
          den |-> IterationScale(g) * old_ranks.den ]

\* PageRank::computeResidual, on two vectors over the same denominator: the
\* largest absolute difference, 0.0 for empty vectors.
computeResidual(old_ranks, new_ranks) ==
    IF old_ranks.scores = << >> THEN << 0, 1 >>
    ELSE LET diffs == { Abs(new_ranks.scores[j] - old_ranks.scores[j]) :
                          j \in 1 .. Len(old_ranks.scores) }
         IN  << CHOOSE d \in diffs : \A e \in diffs : e <= d, new_ranks.den >>

\* residual < tolerance_, without a product that leaves the integers of the model
BelowTolerance(residual, tolerance) ==
    residual[1] <= (tolerance[1] * residual[2] - 1) \div tolerance[2]

\* PageRank::run, the for loop from iteration iter on: its value is iter and
\* old_ranks when the loop is left.
RECURSIVE PageRank_loop(_, _, _, _)
PageRank_loop(g, old_ranks, iter, max_iterations) ==
    IF ~(iter < max_iterations)
    THEN [ iter |-> iter, old_ranks |-> old_ranks, converged |-> FALSE ]
    ELSE LET new_ranks == PageRank_iterate(g, old_ranks)
             residual == computeResidual(Rescale(old_ranks, IterationScale(g)), new_ranks)
         IN  IF BelowTolerance(residual, TOLERANCE)
             THEN [ iter |-> iter, old_ranks |-> old_ranks, converged |-> TRUE ]
             ELSE PageRank_loop(g, new_ranks, iter + 1, max_iterations)

\* PageRank::run: scores, iterations and whether the loop was left by break
PageRank_run(g, max_iterations) ==
    LET left == PageRank_loop(g, PageRank_initialize(g), 0, max_iterations)
    IN  [ scores |-> left.old_ranks, iterations |-> left.iter + 1,
          converged |-> left.converged ]

-----------------------------------------------------------------------------
(* Initial state: a freshly constructed AdaptiveRuntime *)

\* The locals of a thread that is not inside adaptationLoop.
NoLoop ==
    [ pc |-> "none", last_adaptation_time |-> 0, current_time |-> 0,
      detected_phase |-> UNKNOWN ]

\* The caller outside any operation.
MainIdle == [ pc |-> "idle", phase |-> UNKNOWN ]

\* No introspection call has returned yet.
NoResult == [ op |-> "none", count |-> 0, value |-> << >> ]

\* The configurations tried: capacity of the history, a null or a real
\* prefetcher, a monitor whose initialize() succeeded or failed, the stream,
\* and what a sample whose counters were never read holds.
Scenarios ==
    { [ history_size |-> LargeHistory, null |-> FALSE, initialized |-> TRUE,
        first |-> DenseReading, second |-> PointerReading, garbage |-> ZeroCounters ],
      [ history_size |-> LargeHistory, null |-> FALSE, initialized |-> TRUE,
        first |-> PointerReading, second |-> DenseReading, garbage |-> ZeroCounters ],
      [ history_size |-> SmallHistory, null |-> FALSE, initialized |-> TRUE,
        first |-> DenseReading, second |-> PointerReading, garbage |-> ZeroCounters ],
      [ history_size |-> LargeHistory, null |-> TRUE, initialized |-> TRUE,
        first |-> PointerReading, second |-> DenseReading, garbage |-> ZeroCounters ],
      [ history_size |-> LargeHistory, null |-> FALSE, initialized |-> FALSE,
        first |-> DenseReading, second |-> PointerReading, garbage |-> ZeroCounters ],
      [ history_size |-> LargeHistory, null |-> FALSE, initialized |-> FALSE,
        first |-> DenseReading, second |-> PointerReading, garbage |-> DenseReading ] }

\* The state after AdaptiveRuntime(monitor, prefetcher, config), for a
\* configuration s and a prefetcher of the given variant.
Constructed(s, strategy) ==
    /\ config = [ sampling_interval_ms |-> SAMPLING_INTERVAL_MS,
                  adaptation_interval_ms |-> ADAPTATION_INTERVAL_MS,
                  history_size |-> s.history_size ]
    /\ prefetcher = NewPrefetcher(s.null, strategy)
    /\ monitor = [ initialized |-> s.initialized, monitoring |-> FALSE,
                   perf_fds |-> IF s.initialized THEN NUM_EVENTS ELSE 0,
                   samples |-> << >> ]
    /\ stream = [ first |-> s.first, second |-> s.second, shift |-> ShiftTime,
                  garbage |-> s.garbage ]
    /\ current_phase = UNKNOWN
    /\ is_adapting = FALSE
    /\ total_adaptations = 0
    /\ metrics_history = << >>
    /\ adaptation_thread = "none"
    /\ loop = NoLoop
    /\ main = MainIdle
    /\ now = 0
    /\ observed = << DEFAULT_DISTANCE, DEFAULT_DEGREE >>
    /\ calls = [ start |-> 0, stop |-> 0, hintPhase |-> 0, prefetcher |-> 0,
                 monitor |-> 0 ]
    /\ samples_log = << >>
    /\ phase_changes = 0
    /\ pf_writer = [ distance |-> "none", degree |-> "none" ]
    /\ returned = NoResult
    /\ peer = NewPrefetcher(FALSE, strategy)
    /\ graph = CSRGraph

Init == \E s \in Scenarios : Constructed(s, Strided)

-----------------------------------------------------------------------------
(* The caller's operations *)

CallsMade == calls.start + calls.stop + calls.hintPhase

\* The caller is between two operations and may make another one.
MayCall == main.pc = "idle" /\ CallsMade < MaxCalls

\* The early return of startAdaptation never taken.
alreadyAdapting_Never(flag) == FALSE

\* if (is_adapting_.exchange(true)) return;  -- the value exchange() returns
alreadyAdapting(flag) == flag

\* startAdaptation: a no-op when is_adapting_.exchange(true) returns true;
\* otherwise it starts the monitor and creates the adaptation thread.
startAdaptation ==
    /\ MayCall
    /\ calls' = [calls EXCEPT !.start = @ + 1]
    /\ is_adapting' = TRUE
    /\ IF alreadyAdapting(is_adapting)
         THEN UNCHANGED << monitor, adaptation_thread, loop >>
         ELSE /\ monitor' = startMonitoring(monitor)
              /\ adaptation_thread' = "running"
              /\ loop' = [NoLoop EXCEPT !.pc = "entry"]
    /\ UNCHANGED << config, current_phase, total_adaptations, metrics_history,
                    prefetcher, main, now, stream, observed, samples_log,
                    phase_changes, pf_writer >>
    /\ UNCHANGED << returned, peer, graph >>

\* stopAdaptation putting the prefetcher back to its default configuration.
stopAdaptation_Reverting ==
    /\ MayCall
    /\ calls' = [calls EXCEPT !.stop = @ + 1]
    /\ is_adapting' = FALSE
    /\ IF adaptation_thread # "none"
         THEN /\ main' = [main EXCEPT !.pc = "join"]
              /\ UNCHANGED monitor
         ELSE /\ monitor' = stopMonitoring(monitor)
              /\ UNCHANGED main
    /\ prefetcher' = [prefetcher EXCEPT !.distance = DEFAULT_DISTANCE,
                                        !.degree = DEFAULT_DEGREE]
    /\ UNCHANGED << config, current_phase, total_adaptations, metrics_history,
                    adaptation_thread, loop, now, stream, observed,
                    samples_log, phase_changes, pf_writer >>
    /\ UNCHANGED << returned, peer, graph >>

\* stopAdaptation up to join(): clears the flag; with no joinable thread it
\* goes straight on to stopMonitoring and returns.
stopAdaptation ==
    /\ MayCall
    /\ calls' = [calls EXCEPT !.stop = @ + 1]
    /\ is_adapting' = FALSE
    /\ IF adaptation_thread # "none"
         THEN /\ main' = [main EXCEPT !.pc = "join"]
              /\ UNCHANGED monitor
         ELSE /\ monitor' = stopMonitoring(monitor)
              /\ UNCHANGED main
    /\ UNCHANGED << config, current_phase, total_adaptations, metrics_history,
                    prefetcher, adaptation_thread, loop, now, stream, observed,
                    samples_log, phase_changes, pf_writer >>
    /\ UNCHANGED << returned, peer, graph >>

\* stopAdaptation not waiting for the thread (a detach instead of a join).
joinReturns_NoWait == TRUE

\* join() returns only when the thread has left adaptationLoop.
joinReturns == adaptation_thread = "finished"

\* stopAdaptation from join() on: join returns, then stopMonitoring.
stopAdaptationJoin ==
    /\ main.pc = "join"
    /\ joinReturns
    /\ adaptation_thread' = "none"
    /\ loop' = NoLoop
    /\ monitor' = stopMonitoring(monitor)
    /\ main' = MainIdle
    /\ UNCHANGED << config, current_phase, is_adapting, total_adaptations,
                    metrics_history, prefetcher, now, stream, observed, calls,
                    samples_log, phase_changes, pf_writer >>
    /\ UNCHANGED << returned, peer, graph >>

\* hintPhase committing the hinted phase as the current one.
hintPhase_Committing(phase) ==
    /\ MayCall
    /\ calls' = [calls EXCEPT !.hintPhase = @ + 1]
    /\ current_phase' = phase
    /\ IF prefetcher.null \/ ~hasStrategy(phase)
         THEN UNCHANGED << prefetcher, main, pf_writer >>
         ELSE /\ prefetcher' = setPrefetchDistance(prefetcher, strategyDistance(phase))
              /\ main' = [pc |-> "hint_degree", phase |-> phase]
              /\ pf_writer' = [pf_writer EXCEPT !.distance = "main"]
    /\ UNCHANGED << config, is_adapting, total_adaptations,
                    metrics_history, adaptation_thread, loop, monitor, now, stream,
                    observed, samples_log, phase_changes >>
    /\ UNCHANGED << returned, peer, graph >>

\* hintPhase(phase) up to and including setPrefetchDistance; a null prefetcher
\* or a phase without a case returns at once.
hintPhase(phase) ==
    /\ MayCall
    /\ calls' = [calls EXCEPT !.hintPhase = @ + 1]
    /\ IF prefetcher.null \/ ~hasStrategy(phase)
         THEN UNCHANGED << prefetcher, main, pf_writer >>
         ELSE /\ prefetcher' = setPrefetchDistance(prefetcher, strategyDistance(phase))
              /\ main' = [pc |-> "hint_degree", phase |-> phase]
              /\ pf_writer' = [pf_writer EXCEPT !.distance = "main"]
    /\ UNCHANGED << config, current_phase, is_adapting, total_adaptations,
                    metrics_history, adaptation_thread, loop, monitor, now, stream,
                    observed, samples_log, phase_changes >>
    /\ UNCHANGED << returned, peer, graph >>

\* hintPhase: setPrefetchDegree, and return.
hintPhaseDegree ==
    /\ main.pc = "hint_degree"
    /\ prefetcher' = setPrefetchDegree(prefetcher, strategyDegree(main.phase))
    /\ pf_writer' = [pf_writer EXCEPT !.degree = "main"]
    /\ main' = MainIdle
    /\ UNCHANGED << config, current_phase, is_adapting, total_adaptations,
                    metrics_history, adaptation_thread, loop, monitor, now, stream,
                    observed, calls, samples_log, phase_changes >>
    /\ UNCHANGED << returned, peer, graph >>

-----------------------------------------------------------------------------
(* The consumer *)

\* A consumer reads the active prefetcher's distance and degree at one instant.
consumerRead ==
    /\ ~prefetcher.null
    /\ observed' = << prefetcher.distance, prefetcher.degree >>
    /\ UNCHANGED << config, current_phase, is_adapting, total_adaptations,
                    metrics_history, prefetcher, adaptation_thread, loop, main,
                    monitor, now, stream, calls, samples_log, phase_changes,
                    pf_writer >>
    /\ UNCHANGED << returned, peer, graph >>

-----------------------------------------------------------------------------
(* A caller that trains the prefetcher between its hintPhase calls *)

\* The addresses the caller may prefetch next: one cache line after the last
\* one (a sequential walk), or back at the start.
NextAddresses(pf) ==
    {0} \cup
    ( IF pf.recent_addresses # << >>
         /\ pf.recent_addresses[Len(pf.recent_addresses)] + CACHE_LINE_SIZE
               <= CACHE_LINE_SIZE * MaxAddrIndex
        THEN { pf.recent_addresses[Len(pf.recent_addresses)] + CACHE_LINE_SIZE }
        ELSE {} )

\* The addresses the caller teaches successors of, and the successors.
LearnBases == {0, CACHE_LINE_SIZE}
LearnTargets == {CACHE_LINE_SIZE, 2 * CACHE_LINE_SIZE}

\* StridedPrefetcher::prefetch(addr): detectStride(addr), then the hints.
callerPrefetch ==
    /\ main.pc = "idle"
    /\ ~prefetcher.null
    /\ prefetcher.strategy = Strided
    /\ \E addr \in NextAddresses(prefetcher) :
          prefetcher' = detectStride(prefetcher, addr)
    /\ UNCHANGED << config, current_phase, is_adapting, total_adaptations,
                    metrics_history, adaptation_thread, loop, main, monitor, now,
                    stream, observed, calls, samples_log, phase_changes, pf_writer >>
    /\ UNCHANGED << returned, peer, graph >>

\* IMAPrefetcher::learnPointerChain(base_addr, target_addr)
callerLearn ==
    /\ main.pc = "idle"
    /\ ~prefetcher.null
    /\ prefetcher.strategy = IMA
    /\ \E base_addr \in LearnBases, target_addr \in LearnTargets :
          prefetcher' = learnPointerChain(prefetcher, base_addr, target_addr)
    /\ UNCHANGED << config, current_phase, is_adapting, total_adaptations,
                    metrics_history, adaptation_thread, loop, main, monitor, now,
                    stream, observed, calls, samples_log, phase_changes, pf_writer >>
    /\ UNCHANGED << returned, peer, graph >>

-----------------------------------------------------------------------------
(* Calls made directly on a Prefetcher instance *)

\* The caller may make another call on the instance.
MayCallPrefetcher ==
    /\ main.pc = "idle"
    /\ ~prefetcher.null
    /\ calls.prefetcher <
          (IF prefetcher.strategy = Strided THEN MaxStridedCalls ELSE MaxChainCalls)

\* Everything a call on a prefetcher instance leaves alone.
PrefetcherFrame ==
    << config, current_phase, is_adapting, total_adaptations, metrics_history,
       adaptation_thread, loop, main, monitor, now, stream, observed, samples_log,
       phase_changes, pf_writer, graph >>

\* The addresses a walk may start at.
WalkStarts == {0, CACHE_LINE_SIZE * (MaxAddrIndex - 1)}

\* The steps a walk may take from one address to the next.
WalkSteps == {0 - CACHE_LINE_SIZE, 0, CACHE_LINE_SIZE}

\* The addresses the caller may pass to prefetch: for a strided instance
\* the start of a walk or a step from the last address, for the others the
\* addresses successors are learned for.
PrefetchAddresses(pf) ==
    IF pf.strategy = Strided
      THEN IF pf.recent_addresses = << >>
             THEN WalkStarts
             ELSE { a \in { pf.recent_addresses[Len(pf.recent_addresses)] + d :
                              d \in WalkSteps } :
                      a >= 0 /\ a <= CACHE_LINE_SIZE * MaxAddrIndex }
      ELSE {0, CACHE_LINE_SIZE}

\* prefetch(addr) on the instance
prefetchCall ==
    /\ MayCallPrefetcher
    /\ \E addr \in PrefetchAddresses(prefetcher) :
        \E result \in { prefetch(prefetcher, addr) } :
          /\ prefetcher' = result.pf
          /\ returned' = [ op |-> "prefetch", count |-> Len(result.hints),
                           value |-> [ addr |-> addr, hints |-> result.hints ] ]
    /\ calls' = [calls EXCEPT !.prefetcher = @ + 1]
    /\ UNCHANGED PrefetcherFrame
    /\ UNCHANGED peer

\* The (distance, stride) pairs the caller configures (both are size_t).
Configurations == { << 0, 64 >>, << 1, 64 >>, << 2, 128 >>, << 4, 64 >> }

\* configure(distance, stride) on the instance
configureCall ==
    /\ MayCallPrefetcher
    /\ \E c \in Configurations :
          /\ prefetcher' = configure(prefetcher, c[1], c[2])
          /\ returned' = [ op |-> "configure", count |-> 0,
                           value |-> [ distance |-> c[1], stride |-> c[2] ] ]
    /\ calls' = [calls EXCEPT !.prefetcher = @ + 1]
    /\ UNCHANGED PrefetcherFrame
    /\ UNCHANGED peer

\* reset() on the instance
resetCall ==
    /\ MayCallPrefetcher
    /\ prefetcher' = reset(prefetcher)
    /\ returned' = [ op |-> "reset", count |-> 0,
                     value |-> [ before |-> prefetcher ] ]
    /\ calls' = [calls EXCEPT !.prefetcher = @ + 1]
    /\ UNCHANGED PrefetcherFrame
    /\ UNCHANGED peer

\* The (base, successor) pairs the caller teaches: three successors of
\* address 0, one of the next cache line.
ChainPairs ==
    { << 0, CACHE_LINE_SIZE * k >> : k \in 2 .. 4 } \cup
    { << CACHE_LINE_SIZE, 2 * CACHE_LINE_SIZE >> }

\* The chain an instance holds for an address (none: empty).
ChainOf(pf, base_addr) ==
    IF base_addr \in DOMAIN pf.pointer_chains
      THEN pf.pointer_chains[base_addr] ELSE << >>

\* learnPointerChain(base_addr, target_addr) on a pointer-chain instance
learnCall ==
    /\ MayCallPrefetcher
    /\ prefetcher.strategy = IMA
    /\ \E pair \in ChainPairs :
          /\ prefetcher' = learnPointerChain(prefetcher, pair[1], pair[2])
          /\ returned' = [ op |-> "learn", count |-> 0,
                           value |-> [ base_addr |-> pair[1],
                                       target_addr |-> pair[2],
                                       before |-> ChainOf(prefetcher, pair[1]) ] ]
    /\ calls' = [calls EXCEPT !.prefetcher = @ + 1]
    /\ UNCHANGED PrefetcherFrame
    /\ UNCHANGED peer

\* The second instance observes an address or learns a successor ...
peerTrain ==
    /\ main.pc = "idle"
    /\ NoPredictions(peer)
    /\ peer' = IF peer.strategy = IMA
                 THEN learnPointerChain(peer, 0, CACHE_LINE_SIZE)
                 ELSE prefetch(peer, 0).pf
    /\ peer' # peer
    /\ UNCHANGED PrefetcherFrame
    /\ UNCHANGED << prefetcher, calls, returned >>

\* ... and is reset.
peerReset ==
    /\ main.pc = "idle"
    /\ ~NoPredictions(peer)
    /\ peer' = reset(peer)
    /\ UNCHANGED PrefetcherFrame
    /\ UNCHANGED << prefetcher, calls, returned >>

-----------------------------------------------------------------------------
(* The caller's introspection calls.  They read metrics_history_ with no   *)
(* synchronisation, so a call is two steps: it begins, and it returns.  A  *)
(* call during which the adaptation thread stored a sample has raced with  *)
(* that write; its result is then the value of either history or a torn    *)
(* read.                                                                   *)

\* The double a read that raced with a write of the container may yield:
\* not the number of any history (written 0 / 0).
TornRate == << 0, 0 >>

\* A sample was stored since the call in progress began.
ReadRaced == Len(samples_log) # main.seen

\* The results a call may return whose race-free result is value.
ReadOutcomes(value, torn) == IF ReadRaced THEN {value, torn} ELSE {value}

\* getStrategyEffectiveness is entered.
effectivenessBegin ==
    /\ main.pc = "idle"
    /\ main' = [ pc |-> "effectiveness", phase |-> UNKNOWN, count |-> 0,
                 seen |-> Len(samples_log) ]
    /\ returned' = NoResult
    /\ UNCHANGED << config, current_phase, is_adapting, total_adaptations,
                    metrics_history, prefetcher, adaptation_thread, loop, monitor,
                    now, stream, observed, calls, samples_log, phase_changes,
                    pf_writer >>
    /\ UNCHANGED << peer, graph >>

\* getStrategyEffectiveness returns.
effectivenessEnd ==
    /\ main.pc = "effectiveness"
    /\ \E value \in ReadOutcomes(getStrategyEffectiveness(metrics_history), TornRate) :
          returned' = [ op |-> "effectiveness", count |-> 0, value |-> value ]
    /\ main' = MainIdle
    /\ UNCHANGED << config, current_phase, is_adapting, total_adaptations,
                    metrics_history, prefetcher, adaptation_thread, loop, monitor,
                    now, stream, observed, calls, samples_log, phase_changes,
                    pf_writer >>
    /\ UNCHANGED << peer, graph >>

\* The vector a getRecentMetrics call that raced with a write may yield: an
\* entry that is the copy of no sample.
TornMetrics ==
    << [ timestamp_ms |-> 0, l1_hit_rate |-> TornRate, l2_hit_rate |-> TornRate,
         l3_hit_rate |-> TornRate, instructions_per_cycle |-> TornRate,
         branch_accuracy |-> TornRate, prefetch_useful_rate |-> TornRate ] >>

\* getRecentMetrics(count) is entered.
recentMetricsBegin(count) ==
    /\ main.pc = "idle"
    /\ main' = [ pc |-> "recent_metrics", phase |-> UNKNOWN, count |-> count,
                 seen |-> Len(samples_log) ]
    /\ returned' = NoResult
    /\ UNCHANGED << config, current_phase, is_adapting, total_adaptations,
                    metrics_history, prefetcher, adaptation_thread, loop, monitor,
                    now, stream, observed, calls, samples_log, phase_changes,
                    pf_writer >>
    /\ UNCHANGED << peer, graph >>

\* getRecentMetrics(count) returns.
recentMetricsEnd ==
    /\ main.pc = "recent_metrics"
    /\ \E value \in ReadOutcomes(getRecentMetrics(metrics_history, main.count),
                                  TornMetrics) :
          returned' = [ op |-> "recent_metrics", count |-> main.count,
                        value |-> value ]
    /\ main' = MainIdle
    /\ UNCHANGED << config, current_phase, is_adapting, total_adaptations,
                    metrics_history, prefetcher, adaptation_thread, loop, monitor,
                    now, stream, observed, calls, samples_log, phase_changes,
                    pf_writer >>
    /\ UNCHANGED << peer, graph >>

-----------------------------------------------------------------------------
(* Calls of the classifier on feature vectors *)

\* A feature given in thousandths.
Milli(n) == << n, 1000 >>

\* The values tried for the three features the tree branches on, in
\* thousandths: every threshold, its successor and values between.
L3Values == {2, 3, 4, 5, 8, 9, 10, 12, 15, 16, 25, 30}
IpcValues == {700, 800, 900, 950, 1044, 1045, 1218, 1219, 1500, 1900}
BranchValues == {15, 20, 28, 30, 35, 36, 43, 44, 52, 53, 75, 80}

\* The values tried for the features after the third.
RestOfFeatures(k) == [ i \in 1 .. (MaxFeatures - 3) |-> RInt(k * i) ]

\* The vectors of test_classifier_accuracy.
GoldenVectors ==
    { << Milli(2), Milli(1900), Milli(15),
         RInt(800), RInt(300), RInt(950000), RInt(500000) >>,
      << Milli(25), Milli(800), Milli(28),
         RInt(4500), RInt(2500), RInt(1100000), RInt(1400000) >>,
      << Milli(12), Milli(950), Milli(75),
         RInt(1800), RInt(900), RInt(1000000), RInt(1050000) >> }

\* The vectors of test_phase_classifier (5 elements each).
IntegrationVectors ==
    { << Milli(5), Milli(1500), Milli(20), RInt(1000), RInt(500) >>,
      << Milli(30), Milli(700), Milli(30), RInt(5000), RInt(3000) >>,
      << Milli(10), Milli(900), Milli(80), RInt(2000), RInt(1000) >> }

\* Every vector tried: each length from 0 to MaxFeatures.
FeatureVectors ==
    GoldenVectors \cup IntegrationVectors \cup
    { SubSeq(<< Milli(l3), Milli(ic), Milli(br) >> \o RestOfFeatures(k), 1, n) :
        l3 \in L3Values, ic \in IpcValues, br \in BranchValues,
        k \in {0, 100}, n \in 0 .. MaxFeatures }

\* A caller passes a feature vector to TrainedPhaseClassifier::classify
\* (one call in each behaviour).
classifyCall ==
    /\ main.pc = "idle"
    /\ returned = NoResult
    /\ \E features \in FeatureVectors :
          returned' = [ op |-> "classify", count |-> Len(features),
                        value |-> [ features |-> features,
                                    phase |-> classify(features) ] ]
    /\ UNCHANGED << config, current_phase, is_adapting, total_adaptations,
                    metrics_history, prefetcher, adaptation_thread, loop, main,
                    monitor, now, stream, observed, calls, samples_log,
                    phase_changes, pf_writer >>
    /\ UNCHANGED << peer, graph >>

\* The PerformanceSamples tried: with and without instructions and cycles.
Samples ==
    { [ instructions |-> i, cycles |-> c, l1_misses |-> 800, l2_misses |-> 300,
        l3_misses |-> 2, branch_misses |-> 15 ] : i \in {0, 1000}, c \in {0, 500} }

\* The contents of samples_ tried: no sample, one sample, two samples.
SampleLists ==
    { << >> } \cup { << a >> : a \in Samples } \cup
    { << a, b >> : a \in Samples, b \in Samples }

\* A caller asks a monitor holding the given samples for its features and
\* passes them to classify (one call in each behaviour).
extractFeaturesCall ==
    /\ main.pc = "idle"
    /\ returned = NoResult
    /\ \E samples \in SampleLists :
          returned' = [ op |-> "extractFeatures", count |-> Len(samples),
                        value |-> [ samples |-> samples,
                                    features |-> extractFeatures(samples),
                                    phase |-> classify(extractFeatures(samples)) ] ]
    /\ UNCHANGED << config, current_phase, is_adapting, total_adaptations,
                    metrics_history, prefetcher, adaptation_thread, loop, main,
                    monitor, now, stream, observed, calls, samples_log,
                    phase_changes, pf_writer >>
    /\ UNCHANGED << peer, graph >>

\* The PerformanceSamples whose derived metrics are asked for: zero, one and
\* many instructions and cycles, with and without misses.
RateSamples ==
    Samples \cup
    { [ instructions |-> i, cycles |-> c, l1_misses |-> m, l2_misses |-> m,
        l3_misses |-> b, branch_misses |-> b ] :
        i \in {0, 1, 1000}, c \in {0, 1, 500}, m \in {0, 800}, b \in {0, 15} }

\* A caller asks a PerformanceSample for its five derived metrics.
sampleRatesCall ==
    /\ main.pc = "idle"
    /\ returned = NoResult
    /\ \E sample \in RateSamples :
          returned' = [ op |-> "rates", count |-> 1,
                        value |-> [ sample |-> sample,
                                    ipc |-> ipc(sample),
                                    l1_miss_rate |-> l1_miss_rate(sample),
                                    l2_miss_rate |-> l2_miss_rate(sample),
                                    l3_miss_rate |-> l3_miss_rate(sample),
                                    branch_miss_rate |-> branch_miss_rate(sample) ] ]
    /\ UNCHANGED << config, current_phase, is_adapting, total_adaptations,
                    metrics_history, prefetcher, adaptation_thread, loop, main,
                    monitor, now, stream, observed, calls, samples_log,
                    phase_changes, pf_writer >>
    /\ UNCHANGED << peer, graph >>

-----------------------------------------------------------------------------
(* adaptationLoop, on the adaptation thread *)

\* Everything the loop shares with no step of its own to change it.
LoopFrame ==
    << config, is_adapting, main, monitor, stream, observed, calls, returned, peer,
       graph >>

\* uint64_t last_adaptation_time = getCurrentTimeMs();
loopEntry ==
    /\ loop.pc = "entry"
    /\ loop' = [loop EXCEPT !.pc = "while", !.last_adaptation_time = now]
    /\ UNCHANGED << current_phase, total_adaptations, metrics_history, prefetcher,
                    adaptation_thread, now, samples_log, phase_changes, pf_writer >>
    /\ UNCHANGED LoopFrame

\* while (is_adapting_.load()) { current_time = getCurrentTimeMs(); ... }
\* When the flag is clear the thread leaves the loop and ends.
loopWhile ==
    /\ loop.pc = "while"
    /\ IF is_adapting
         THEN /\ loop' = [loop EXCEPT !.pc = "sample", !.current_time = now]
              /\ UNCHANGED adaptation_thread
         ELSE /\ loop' = [loop EXCEPT !.pc = "done"]
              /\ adaptation_thread' = "finished"
    /\ UNCHANGED << current_phase, total_adaptations, metrics_history, prefetcher,
                    now, samples_log, phase_changes, pf_writer >>
    /\ UNCHANGED LoopFrame

\* "Sample performance metrics": read the counters, extract the metrics,
\* store them in the history.
loopSample ==
    /\ loop.pc = "sample"
    /\ IF samplingDue(loop.current_time, loop.last_adaptation_time,
                      config.sampling_interval_ms)
         THEN LET sample == readCounters(monitor, loop.current_time)
                  metrics == extractMetrics(sample, loop.current_time)
              IN  /\ metrics_history' =
                        storeInHistory(metrics_history, metrics, config.history_size)
                  /\ samples_log' = Append(samples_log, metrics)
                  /\ loop' = [loop EXCEPT !.pc = "adapt",
                                          !.last_adaptation_time = loop.current_time]
         ELSE /\ loop' = [loop EXCEPT !.pc = "adapt"]
              /\ UNCHANGED << metrics_history, samples_log >>
    /\ UNCHANGED << current_phase, total_adaptations, prefetcher, adaptation_thread,
                    now, phase_changes, pf_writer >>
    /\ UNCHANGED LoopFrame

\* "Perform adaptation": with enough samples, average, detect and compare
\* with current_phase_.
loopAdapt ==
    /\ loop.pc = "adapt"
    /\ IF enoughSamples(metrics_history)
         THEN \E detected \in
                     { detectExecutionPhase(computeAverageMetrics(metrics_history)) } :
                 IF phaseDiffers(detected, current_phase)
                   THEN loop' = [loop EXCEPT !.pc = "set_distance",
                                             !.detected_phase = detected]
                   ELSE loop' = [loop EXCEPT !.pc = "sleep"]
         ELSE loop' = [loop EXCEPT !.pc = "sleep"]
    /\ UNCHANGED << current_phase, total_adaptations, metrics_history, prefetcher,
                    adaptation_thread, now, samples_log, phase_changes, pf_writer >>
    /\ UNCHANGED LoopFrame

\* updatePrefetchingStrategy(detected_phase): the null check and
\* setPrefetchDistance.
loopSetDistance ==
    /\ loop.pc = "set_distance"
    /\ IF prefetcher.null \/ ~hasStrategy(loop.detected_phase)
         THEN /\ loop' = [loop EXCEPT !.pc = "set_phase"]
              /\ UNCHANGED << prefetcher, pf_writer >>
         ELSE /\ prefetcher' =
                    setPrefetchDistance(prefetcher, strategyDistance(loop.detected_phase))
              /\ pf_writer' = [pf_writer EXCEPT !.distance = "loop"]
              /\ loop' = [loop EXCEPT !.pc = "set_degree"]
    /\ UNCHANGED << current_phase, total_adaptations, metrics_history,
                    adaptation_thread, now, samples_log, phase_changes >>
    /\ UNCHANGED LoopFrame

\* updatePrefetchingStrategy(detected_phase): setPrefetchDegree.
loopSetDegree ==
    /\ loop.pc = "set_degree"
    /\ prefetcher' = setPrefetchDegree(prefetcher, strategyDegree(loop.detected_phase))
    /\ pf_writer' = [pf_writer EXCEPT !.degree = "loop"]
    /\ loop' = [loop EXCEPT !.pc = "set_phase"]
    /\ UNCHANGED << current_phase, total_adaptations, metrics_history,
                    adaptation_thread, now, samples_log, phase_changes >>
    /\ UNCHANGED LoopFrame

\* current_phase_ = detected_phase;
loopSetPhase ==
    /\ loop.pc = "set_phase"
    /\ current_phase' = loop.detected_phase
    /\ phase_changes' =
          IF loop.detected_phase # current_phase THEN phase_changes + 1
          ELSE phase_changes
    /\ loop' = [loop EXCEPT !.pc = "count"]
    /\ UNCHANGED << total_adaptations, metrics_history, prefetcher,
                    adaptation_thread, now, samples_log, pf_writer >>
    /\ UNCHANGED LoopFrame

\* total_adaptations_++;
loopCount ==
    /\ loop.pc = "count"
    /\ total_adaptations' = total_adaptations + 1
    /\ loop' = [loop EXCEPT !.pc = "sleep"]
    /\ UNCHANGED << current_phase, metrics_history, prefetcher, adaptation_thread,
                    now, samples_log, phase_changes, pf_writer >>
    /\ UNCHANGED LoopFrame

\* sleep_for(adaptation_interval_ms).  At the end of the modelled time the
\* thread stays asleep until the flag is cleared.
loopSleep ==
    /\ loop.pc = "sleep"
    /\ \/ /\ now + config.adaptation_interval_ms <= MaxTime
          /\ now' = now + config.adaptation_interval_ms
       \/ /\ now + config.adaptation_interval_ms > MaxTime
          /\ ~is_adapting
          /\ UNCHANGED now
    /\ loop' = [loop EXCEPT !.pc = "while"]
    /\ UNCHANGED << current_phase, total_adaptations, metrics_history, prefetcher,
                    adaptation_thread, samples_log, phase_changes, pf_writer >>
    /\ UNCHANGED LoopFrame

\* One step of the adaptation thread.
LoopStep ==
    \/ loopEntry
    \/ loopWhile
    \/ loopSample
    \/ loopAdapt
    \/ loopSetDistance
    \/ loopSetDegree
    \/ loopSetPhase
    \/ loopCount
    \/ loopSleep

-----------------------------------------------------------------------------
(* A PerformanceMonitor used directly, as test_performance_monitor does *)

\* One more call on the monitor may be made.
MayCallMonitor ==
    /\ main.pc = "idle"
    /\ adaptation_thread = "none"
    /\ calls.monitor < MaxMonitorCalls

\* Everything a call on the monitor leaves alone.
MonitorFrame ==
    << config, current_phase, is_adapting, total_adaptations, metrics_history,
       prefetcher, adaptation_thread, loop, main, stream, observed, samples_log,
       phase_changes, pf_writer, peer, graph >>

\* How far the caller is in the sequence start, work, stop.
Session(r) == IF "session" \in DOMAIN r THEN r.session ELSE "none"

\* bool initialized = monitor.initialize(1);
initializeCall ==
    \E opened \in 0 .. NUM_EVENTS :
        /\ MayCallMonitor
        /\ monitor' = initialize(monitor, opened)
        /\ returned' = [ op |-> "initialize", count |-> opened,
                         value |-> [ result |-> monitor'.initialized,
                                     before |-> monitor ],
                         session |-> "none" ]
        /\ calls' = [calls EXCEPT !.monitor = @ + 1]
        /\ UNCHANGED << MonitorFrame, now >>

\* monitor.startMonitoring(): after the guard, an ioctl on a descriptor may
\* fail, and the call then returns false before monitoring_ is set.
startMonitoringCall ==
    \E ioctl_ok \in BOOLEAN :
        LET started == ~(~monitor.initialized \/ monitor.monitoring) /\ ioctl_ok
        IN  /\ MayCallMonitor
            /\ monitor' = IF ioctl_ok THEN startMonitoring(monitor) ELSE monitor
            /\ returned' = [ op |-> "startMonitoring", count |-> 0,
                             value |-> [ result |-> started, before |-> monitor ],
                             session |-> IF started THEN "started" ELSE "none" ]
            /\ calls' = [calls EXCEPT !.monitor = @ + 1]
            /\ UNCHANGED << MonitorFrame, now >>

\* The caller's work between start and stop.  Time passes; no thread and no
\* handler of the monitor runs meanwhile, and nothing appends to samples_.
workRuns ==
    /\ MayCallMonitor
    /\ now < MaxTime
    /\ now' = now + 1
    /\ returned' = [ op |-> "work", count |-> 0, value |-> << >>,
                     session |-> IF Session(returned) \in {"started", "worked"}
                                 THEN "worked" ELSE "none" ]
    /\ calls' = [calls EXCEPT !.monitor = @ + 1]
    /\ UNCHANGED << MonitorFrame, monitor >>

\* monitor.stopMonitoring()
stopMonitoringCall ==
    /\ MayCallMonitor
    /\ monitor' = stopMonitoring(monitor)
    /\ returned' = [ op |-> "stopMonitoring", count |-> 0,
                     value |-> [ result |-> TRUE, before |-> monitor ],
                     session |-> IF Session(returned) = "worked"
                                 THEN "stopped" ELSE "none" ]
    /\ calls' = [calls EXCEPT !.monitor = @ + 1]
    /\ UNCHANGED << MonitorFrame, now >>

\* monitor.getSamples() and monitor.getCurrentPhase()
getSamplesCall ==
    /\ MayCallMonitor
    /\ returned' = [ op |-> "getSamples", count |-> Len(monitor.samples),
                     value |-> [ samples |-> monitor.samples,
                                 phase |-> getCurrentPhase(monitor),
                                 before |-> monitor ],
                     session |-> Session(returned) ]
    /\ calls' = [calls EXCEPT !.monitor = @ + 1]
    /\ UNCHANGED << MonitorFrame, monitor, now >>

-----------------------------------------------------------------------------
(* A graph built from an edge list, and the algorithms run on it *)

\* The caller is free to use the graph.
MayCallGraph ==
    /\ main.pc = "idle"
    /\ adaptation_thread = "none"

\* Everything a call on the graph leaves alone.
GraphFrame ==
    << config, current_phase, is_adapting, total_adaptations, metrics_history,
       prefetcher, adaptation_thread, loop, main, monitor, now, stream, observed,
       calls, samples_log, phase_changes, pf_writer, peer >>

\* The endpoints an edge may name, and the edge lists tried.
EdgeEnds == {0, 1, 2}

EdgeLists ==
    UNION { [ 1 .. len -> EdgeEnds \X EdgeEnds ] : len \in 0 .. MaxEdges }

\* Every endpoint of the edge list the graph was built from is a vertex.
EdgesInRange(g) ==
    \A k \in 1 .. Len(g.edges) :
        g.edges[k][1] < g.num_vertices /\ g.edges[k][2] < g.num_vertices

\* CSRGraph graph; graph.buildFromEdges(num_vertices, edges);
buildFromEdgesCall ==
    /\ MayCallGraph
    /\ returned = NoResult
    /\ graph = CSRGraph
    /\ \E num_vertices \in 0 .. MaxVertices, edges \in EdgeLists :
            /\ graph' = buildFromEdges(graph, num_vertices, edges)
            /\ returned' = [ op |-> "buildFromEdges", count |-> Len(edges),
                             value |-> [ num_vertices |-> num_vertices ] ]
    /\ UNCHANGED GraphFrame

\* The graph was just constructed or built, and no algorithm has run on it.
GraphUnused == returned.op \in {"none", "buildFromEdges"}

\* graph.validate()
validateCall ==
    /\ MayCallGraph
    /\ GraphUnused
    /\ returned' = [ op |-> "CSRGraph::validate", count |-> 0,
                     value |-> [ result |-> CSRGraph_validate(graph) ] ]
    /\ UNCHANGED << GraphFrame, graph >>

\* BFS bfs(graph); bfs.run(source), then BFS::validate on its result.  The
\* traversal indexes its vectors with the neighbours it reads, so it is run
\* on graphs whose edges are in range.
bfsCall ==
    /\ MayCallGraph
    /\ GraphUnused
    /\ EdgesInRange(graph)
    /\ \E source \in 0 .. MaxVertices :
            \E result \in { BFS_run(graph, source) } :
                returned' = [ op |-> "BFS::run", count |-> 0,
                              value |-> [ source |-> source,
                                          thrown |-> result.thrown,
                                          distances |-> result.distances,
                                          parents |-> result.parents,
                                          valid |-> IF result.thrown THEN FALSE
                                                    ELSE BFS_validate(graph, result,
                                                                      source) ] ]
    /\ UNCHANGED << GraphFrame, graph >>

\* PageRank pagerank(graph); pagerank.run(max_iterations)
pagerankCall ==
    /\ MayCallGraph
    /\ GraphUnused
    /\ EdgesInRange(graph)
    /\ \E max_iterations \in 1 .. MaxIterations :
            \E result \in { PageRank_run(graph, max_iterations) } :
                returned' = [ op |-> "PageRank::run", count |-> result.iterations,
                              value |-> [ max_iterations |-> max_iterations,
                                          converged |-> result.converged ] ]
    /\ UNCHANGED << GraphFrame, graph >>

-----------------------------------------------------------------------------
(* Specifications *)

\* One step of the controller: of its caller or of its adaptation thread.
ControllerNext ==
    \/ startAdaptation
    \/ stopAdaptation
    \/ stopAdaptationJoin
    \/ \E phase \in ExecutionPhase : hintPhase(phase)
    \/ hintPhaseDegree
    \/ LoopStep

Next ==
    \/ ControllerNext
    \/ consumerRead

Spec == Init /\ [][Next]_vars

\* The controller under a scheduler that runs the adaptation thread and lets
\* a caller blocked in join() return once the thread has ended.  The consumer
\* only reads, and is left out.
FairSpec ==
    /\ Init
    /\ [][ControllerNext]_vars
    /\ WF_vars(LoopStep)
    /\ WF_vars(stopAdaptationJoin)

\* A controller that is never started: one thread trains a strided or a
\* pointer-chain prefetcher and switches the strategy with hintPhase.
HandoffInit ==
    \E strategy \in {Strided, IMA} :
        Constructed(CHOOSE s \in Scenarios : ~s.null /\ s.initialized, strategy)

HandoffNext ==
    \/ callerPrefetch
    \/ callerLearn
    \/ \E phase \in ExecutionPhase : hintPhase(phase)
    \/ hintPhaseDegree

HandoffSpec == HandoffInit /\ [][HandoffNext]_vars

\* A controller whose caller starts it and queries it while the loop runs.
ReaderInit ==
    \E s \in { c \in Scenarios : ~c.null /\ c.initialized } : Constructed(s, Strided)

ReaderNext ==
    \/ startAdaptation
    \/ LoopStep
    \/ effectivenessBegin
    \/ effectivenessEnd
    \/ \E count \in 0 .. MaxCount : recentMetricsBegin(count)
    \/ recentMetricsEnd

ReaderSpec == ReaderInit /\ [][ReaderNext]_vars

\* Prefetcher instances of the three variants, called directly.
PrefetcherInit ==
    \E strategy \in {Sequential, Strided, IMA} :
        Constructed(CHOOSE s \in Scenarios : ~s.null /\ s.initialized, strategy)

PrefetcherNext ==
    \/ prefetchCall
    \/ configureCall
    \/ resetCall
    \/ learnCall
    \/ peerTrain
    \/ peerReset

PrefetcherSpec == PrefetcherInit /\ [][PrefetcherNext]_vars

\* The classifier and the feature extraction applied to the inputs tried.
ClassifierInit ==
    Constructed(CHOOSE s \in Scenarios : ~s.null /\ s.initialized, Strided)

ClassifierNext ==
    \/ classifyCall
    \/ extractFeaturesCall
    \/ sampleRatesCall

ClassifierSpec == ClassifierInit /\ [][ClassifierNext]_vars

\* A default-constructed PerformanceMonitor and its caller.
MonitorInit ==
    Constructed(CHOOSE s \in Scenarios : ~s.initialized /\ s.garbage = ZeroCounters,
                Strided)

MonitorNext ==
    \/ initializeCall
    \/ startMonitoringCall
    \/ workRuns
    \/ stopMonitoringCall
    \/ getSamplesCall

MonitorSpec == MonitorInit /\ [][MonitorNext]_vars

\* A default-constructed CSRGraph, built once, and the calls made on it.
GraphInit ==
    Constructed(CHOOSE s \in Scenarios : ~s.null /\ s.initialized, Strided)

GraphNext ==
    \/ buildFromEdgesCall
    \/ validateCall
    \/ bfsCall
    \/ pagerankCall

GraphSpec == GraphInit /\ [][GraphNext]_vars

-----------------------------------------------------------------------------
(* Notions the claims are stated with *)

\* The (distance, degree) pair of the prefetcher.
Pair == << prefetcher.distance, prefetcher.degree >>

\* The phase -> (distance, degree) table of the specification.
TablePair(phase) ==
    CASE phase = DENSE_SEQUENTIAL -> << 256, 4 >>
      [] phase = SPARSE_RANDOM -> << 128, 2 >>
      [] phase = POINTER_CHASING -> << 64, 1 >>

\* The pairs a reader may see if every switch is atomic: the pair supplied at
\* construction and the complete pair of each phase.
CompletePairs ==
    { << DEFAULT_DISTANCE, DEFAULT_DEGREE >> } \cup
    { TablePair(p) : p \in {DENSE_SEQUENTIAL, SPARSE_RANDOM, POINTER_CHASING} }

\* The last n elements of a sequence.
LastN(seq, n) == SubSeq(seq, Len(seq) - n + 1, Len(seq))

Min(a, b) == IF a < b THEN a ELSE b

\* The adaptation thread is between the decision of a tick and its end.
MidSwitch == loop.pc \in {"set_distance", "set_degree", "set_phase", "count"}

-----------------------------------------------------------------------------
(* C1 *)

\* C1: a strategy switch appears atomic to readers.  As long as the only
\* switches are those of the adaptation loop (no hintPhase call has been
\* made), every pair a consumer has read is the pair supplied at construction
\* or the complete pair of a phase, never a new distance with an old degree.
C1_SwitchAppearsAtomic ==
    calls.hintPhase = 0 => observed \in CompletePairs

-----------------------------------------------------------------------------
(* C2 *)

\* C2: the history never holds more than history_size entries, and it always
\* holds exactly the last min(N, history_size) of the N samples appended so
\* far, in insertion order (so an append to a full buffer evicts exactly the
\* oldest entry).
C2_HistoryBoundedFifo ==
    /\ Len(metrics_history) <= config.history_size
    /\ metrics_history =
          LastN(samples_log, Min(Len(samples_log), config.history_size))

\* More samples were appended than the larger capacity holds: entries were
\* evicted from a full buffer more than once.
C2_Witness ==
    /\ config.history_size = LargeHistory
    /\ Len(samples_log) >= config.history_size + 2
    /\ Len(metrics_history) = config.history_size

-----------------------------------------------------------------------------
(* C3 *)

\* The phase a tick would detect on the current history.
DetectedNow == detectExecutionPhase(computeAverageMetrics(metrics_history))

-----------------------------------------------------------------------------
(* C4 *)

\* C4: while the history holds fewer than 10 entries no step of the
\* adaptation thread changes the phase, the counter or the prefetcher, and
\* until the 10th sample is stored the phase is Unknown and the counter 0.
C4_NoTickBelowTenSamples ==
    /\ [][ (Len(metrics_history) < 10 /\ loop' # loop)
             => UNCHANGED << current_phase, total_adaptations, prefetcher >> ]_vars
    /\ [](Len(samples_log) < 10 => current_phase = UNKNOWN /\ total_adaptations = 0)

\* A tick has ended on a history of 9 samples and did nothing.
C4_Witness ==
    /\ loop.pc = "sleep"
    /\ Len(metrics_history) = 9
    /\ current_phase = UNKNOWN
    /\ total_adaptations = 0

-----------------------------------------------------------------------------
(* C5 *)

\* The counters describe dense, high-locality behaviour: an L1 hit rate
\* hits / (hits + misses + 1) above 85 %.
DenseBehaviour(c) ==
    100 * c.l1_cache_hits > 85 * (c.l1_cache_hits + c.l1_cache_misses + 1)

\* C5: from Unknown, once 10 or more samples of dense behaviour are in the
\* history and a tick has run on them, exactly one transition has happened:
\* the phase is DenseSequential, the counter 1, the prefetcher (256, 4).
C5_DenseStreamSwitchesOnce ==
    ( /\ monitor.perf_fds >= NUM_EVENTS
      /\ ~prefetcher.null
      /\ calls.hintPhase = 0
      /\ DenseBehaviour(stream.first)
      /\ now < stream.shift
      /\ Len(metrics_history) >= 10
      /\ loop.pc = "sleep" )
    => ( /\ current_phase = DENSE_SEQUENTIAL
         /\ total_adaptations = 1
         /\ Pair = << 256, 4 >> )

-----------------------------------------------------------------------------
(* C6 *)

-----------------------------------------------------------------------------
(* C7 *)

\* C7: a start() call made while the controller is running changes nothing:
\* the one adaptation thread goes on where it was, and phase, counter,
\* history, prefetcher and monitor are as they were.
C7_StartIdempotent ==
    [][ (calls'.start = calls.start + 1 /\ is_adapting)
          => UNCHANGED << config, current_phase, is_adapting, total_adaptations,
                          metrics_history, prefetcher, adaptation_thread, loop,
                          main, monitor, now, samples_log, phase_changes >> ]_vars

\* start() was called twice with no stop(); the thread is running and has
\* stored samples.
C7_Witness ==
    /\ calls.start = 2
    /\ calls.stop = 0
    /\ adaptation_thread = "running"
    /\ Len(metrics_history) >= 2

-----------------------------------------------------------------------------
(* C8 *)

\* C8: a start() call that begins the loop leaves the history empty.
C8_StartClearsHistory ==
    [][ (calls'.start = calls.start + 1 /\ ~is_adapting)
          => metrics_history' = << >> ]_vars

-----------------------------------------------------------------------------
(* C9 *)

\* C9: no step of stop() changes phase, counter, prefetcher or history, so
\* after stop() they are as the loop left them; and a stop() call on a
\* controller with no thread (stopped or never started) changes nothing.
C9_StopKeepsStrategy ==
    /\ [][ (calls'.stop = calls.stop + 1 \/ (main.pc = "join" /\ main'.pc = "idle"))
             => UNCHANGED << current_phase, total_adaptations, prefetcher,
                             metrics_history >> ]_vars
    /\ [][ (calls'.stop = calls.stop + 1 /\ adaptation_thread = "none")
             => UNCHANGED << config, current_phase, is_adapting, total_adaptations,
                             metrics_history, prefetcher, adaptation_thread, loop,
                             main, monitor, now >> ]_vars

\* stop() was called twice after a run in which the loop switched once; the
\* prefetcher still carries the pair of the phase the loop committed.
C9_Witness ==
    /\ calls.stop = 2
    /\ main.pc = "idle"
    /\ adaptation_thread = "none"
    /\ total_adaptations = 1
    /\ current_phase = SPARSE_RANDOM
    /\ Pair = << 128, 2 >>

-----------------------------------------------------------------------------
(* C10 *)

\* C10: a stop() that waits in join() eventually returns, whatever the loop
\* was doing when the flag was cleared, and it returns only when the thread
\* has left adaptationLoop; the loop leaves only at the test of the flag at
\* the head of an iteration; whenever the caller is outside stop() and the
\* flag is clear the adaptation thread has ended and been joined; and while
\* there is no thread, phase, counter and history do not change and the
\* prefetcher is written by hintPhase only.
C10_StopTerminates ==
    /\ (main.pc = "join") ~> (main.pc = "idle")
    /\ [][ (main.pc = "join" /\ main'.pc = "idle") => loop.pc = "done" ]_vars
    /\ [][ (loop.pc # "done" /\ loop'.pc = "done")
             => (loop.pc = "while" /\ ~is_adapting) ]_vars
    /\ []( (main.pc = "idle" /\ ~is_adapting)
             => (adaptation_thread = "none" /\ loop.pc = "none") )
    /\ [][ (adaptation_thread = "none" /\ adaptation_thread' = "none")
             => /\ UNCHANGED << current_phase, total_adaptations, metrics_history >>
                /\ ( prefetcher' # prefetcher
                       => (calls'.hintPhase # calls.hintPhase
                           \/ main.pc = "hint_degree") ) ]_vars

\* stop() has cleared the flag while the loop is in the middle of a switch,
\* between setPrefetchDistance and setPrefetchDegree.
C10_Witness ==
    /\ main.pc = "join"
    /\ ~is_adapting
    /\ loop.pc = "set_degree"

-----------------------------------------------------------------------------
(* C11 *)

\* C11: on a controller whose counter source could not be initialized,
\* adaptation is disabled: whatever the loop has done (and no hintPhase call
\* having been made) the phase is Unknown, the counter 0 and the prefetcher
\* carries the pair supplied at construction.
C11_UnavailableTelemetryDisablesAdaptation ==
    (~monitor.initialized /\ calls.hintPhase = 0)
    => ( /\ current_phase = UNKNOWN
         /\ total_adaptations = 0
         /\ Pair = << DEFAULT_DISTANCE, DEFAULT_DEGREE >> )

-----------------------------------------------------------------------------
(* C12 *)

\* C12: Unknown is only the initial phase.  Every change of the current
\* phase leads to DenseSequential, SparseRandom or PointerChasing, and once
\* the phase is not Unknown no step (tick, hintPhase, start, stop) makes it
\* Unknown again.
C12_UnknownOnlyInitial ==
    /\ [][ current_phase # UNKNOWN => current_phase' # UNKNOWN ]_vars
    /\ [][ current_phase' # current_phase
             => current_phase' \in {DENSE_SEQUENTIAL, SPARSE_RANDOM, POINTER_CHASING} ]_vars

\* The phase has left Unknown and has changed again between two detected
\* phases, and the caller has made a hintPhase and a stop call.
C12_Witness ==
    /\ current_phase = SPARSE_RANDOM
    /\ total_adaptations = 2
    /\ calls.hintPhase = 1
    /\ calls.stop = 1

-----------------------------------------------------------------------------
(* C13 *)

\* C13: when a strategy switch completes, the prefetcher holds no predictions
\* learned before it: a strided prefetcher has an empty address window and
\* detected stride 0, a pointer-chain prefetcher no successor list.
C13_SwitchResetsPredictiveState ==
    [][ (main.pc = "hint_degree" /\ main'.pc = "idle")
          => NoPredictions(prefetcher') ]_vars

-----------------------------------------------------------------------------
(* C14 *)

\* v is the arithmetic mean of prefetch_useful_rate over the history:
\* v times the number of entries is their sum.
IsMeanUsefulRate(v, history) ==
    \E sum \in { SumField(history, "prefetch_useful_rate") } :
        Len(history) * v[1] * sum[2] = sum[1] * v[2]

-----------------------------------------------------------------------------
(* C15 *)

-----------------------------------------------------------------------------
(* C16 *)

\* C16: the history is written by the sampling step only, and no write of it
\* (append or eviction) happens while a call of another thread that reads it
\* is in progress.
C16_HistoryTouchedByLoopOnly ==
    [][ metrics_history' # metrics_history
          => /\ loop.pc = "sample"
             /\ main.pc \notin {"effectiveness", "recent_metrics"} ]_vars

-----------------------------------------------------------------------------
(* C17 *)

-----------------------------------------------------------------------------
(* C18 *)

\* The decision tree as the specification prints it.
SpecifiedTree(l3_rate, ipc_value, branch_rate) ==
    IF RLe(l3_rate, Milli(8))
      THEN IF RLe(ipc_value, Milli(1218))
             THEN IF RLe(branch_rate, Milli(43)) THEN "SparseRandom"
                  ELSE IF RLe(l3_rate, Milli(4)) THEN "DenseSequential"
                  ELSE "PointerChasing"
             ELSE IF RLe(l3_rate, Milli(3)) THEN "DenseSequential"
                  ELSE IF RLe(branch_rate, Milli(35)) THEN "DenseSequential"
                  ELSE "PointerChasing"
      ELSE IF RLe(ipc_value, Milli(1044))
             THEN IF RLe(branch_rate, Milli(52)) THEN "SparseRandom"
                  ELSE "PointerChasing"
             ELSE IF RLe(l3_rate, Milli(15)) THEN "PointerChasing"
                  ELSE "SparseRandom"

\* The phase the specification lists for each golden vector.
GoldenPhase(features) ==
    CASE features[1] = Milli(2) -> "DenseSequential"
      [] features[1] = Milli(25) -> "SparseRandom"
      [] features[1] = Milli(12) -> "PointerChasing"

\* C18: for every feature vector of 7 or more elements classify returns the
\* phase of the specified tree over the first three features, whatever the
\* other features are; it is never Unknown; and each golden vector gets the
\* phase listed for it.
C18_ClassifyFollowsTree ==
    (returned.op = "classify" /\ returned.count >= 7)
    => /\ returned.value.phase =
            SpecifiedTree(returned.value.features[1], returned.value.features[2],
                          returned.value.features[3])
       /\ returned.value.phase # "Unknown"
       /\ ( returned.value.features \in GoldenVectors
              => returned.value.phase = GoldenPhase(returned.value.features) )

\* classify has returned PointerChasing for a vector of 7 elements whose
\* l3_miss_rate and ipc lie exactly on the thresholds 0.008 and 1.218.
C18_Witness ==
    /\ returned.op = "classify"
    /\ returned.count = 7
    /\ returned.value.features[1] = Milli(8)
    /\ returned.value.features[2] = Milli(1218)
    /\ returned.value.features[3] = Milli(44)
    /\ returned.value.phase = "PointerChasing"

-----------------------------------------------------------------------------
(* C19 *)

\* The feature vector the specification gives for a sample.
SpecifiedFeatures(sample) ==
    << l3_miss_rate(sample), ipc(sample), branch_miss_rate(sample),
       RInt(sample.l1_misses), RInt(sample.l2_misses),
       RInt(sample.instructions), RInt(sample.cycles) >>

\* C19: extractFeatures returns exactly 7 elements, in the order
\* [l3_miss_rate, ipc, branch_miss_rate, l1_misses, l2_misses, instructions,
\* cycles] for the sample it is applied to.
C19_ExtractFeaturesGivesSeven ==
    returned.op = "extractFeatures"
    => /\ Len(returned.value.features) = 7
       /\ ( returned.value.samples # << >>
              => returned.value.features =
                   SpecifiedFeatures(
                       returned.value.samples[Len(returned.value.samples)]) )

-----------------------------------------------------------------------------
(* C20 *)

-----------------------------------------------------------------------------
(* C21 *)

\* A double that is finite and not negative.
FiniteNonNegative(r) == r[2] > 0 /\ r[1] >= 0

\* The five derived metrics a call returned.
ReturnedRates ==
    { returned.value.ipc, returned.value.l1_miss_rate, returned.value.l2_miss_rate,
      returned.value.l3_miss_rate, returned.value.branch_miss_rate }

\* C21: for every counter sample, also one with instructions = 0 or
\* cycles = 0, the five derived metrics are defined, finite and non-negative.
C21_RatesFiniteNonNegative ==
    returned.op = "rates" => \A r \in ReturnedRates : FiniteNonNegative(r)

\* The metrics of a sample with cycles = 0 and instructions # 0 were returned.
C21_Witness ==
    /\ returned.op = "rates"
    /\ returned.value.sample.cycles = 0
    /\ returned.value.sample.instructions > 0

-----------------------------------------------------------------------------
(* C22 *)

Max(a, b) == IF a > b THEN a ELSE b

\* C22: every derived metric is its numerator over its denominator floored
\* at 1: ipc = instructions / max(cycles, 1), each miss rate = misses /
\* max(instructions, 1).
C22_DenominatorFlooredAtOne ==
    returned.op = "rates" =>
        LET sample == returned.value.sample
            floored == Max(sample.instructions, 1)
        IN  /\ returned.value.ipc =
                   RNorm(sample.instructions, Max(sample.cycles, 1))
            /\ returned.value.l1_miss_rate = RNorm(sample.l1_misses, floored)
            /\ returned.value.l2_miss_rate = RNorm(sample.l2_misses, floored)
            /\ returned.value.l3_miss_rate = RNorm(sample.l3_misses, floored)
            /\ returned.value.branch_miss_rate =
                   RNorm(sample.branch_misses, floored)

-----------------------------------------------------------------------------
(* C23 *)

\* The rate hits / (hits + misses + 1).
HitRatio(hits, misses) == RNorm(hits, hits + misses + 1)

\* C23: every sample stored in the history holds, for each cache level, the
\* hit rate hits / (hits + misses + 1) of the counters it was extracted from
\* (9 hits and 0 misses give 0.9), which is 0 only when hits is 0.
C23_HitRateIsRatio ==
    \A i \in 1 .. Len(metrics_history) :
        LET metrics == metrics_history[i]
            sample == readCounters(monitor, metrics.timestamp_ms)
        IN  /\ metrics.l1_hit_rate =
                   HitRatio(sample.l1_cache_hits, sample.l1_cache_misses)
            /\ metrics.l2_hit_rate =
                   HitRatio(sample.l2_cache_hits, sample.l2_cache_misses)
            /\ metrics.l3_hit_rate =
                   HitRatio(sample.l3_cache_hits, sample.l3_cache_misses)
            /\ (metrics.l1_hit_rate = RInt(0) => sample.l1_cache_hits = 0)
            /\ (metrics.l2_hit_rate = RInt(0) => sample.l2_cache_hits = 0)
            /\ (metrics.l3_hit_rate = RInt(0) => sample.l3_cache_hits = 0)

-----------------------------------------------------------------------------
(* Notions the claims about the prefetchers are stated with *)

\* The step is the given call on the prefetcher instance.
PrefetcherCalled(op) ==
    calls'.prefetcher = calls.prefetcher + 1 /\ returned'.op = op

\* The window's consecutive addresses differ by one and the same positive
\* amount.
ConstantPositive(window) ==
    /\ Len(window) >= 2
    /\ window[2] - window[1] > 0
    /\ \A i \in 1 .. (Len(window) - 1) :
          window[i + 1] - window[i] = window[2] - window[1]

-----------------------------------------------------------------------------
(* C24 *)

-----------------------------------------------------------------------------
(* C25 *)

-----------------------------------------------------------------------------
(* C26 *)

\* The spacing the hints of a strided prefetcher are specified to have.
SpecifiedSpacing(pf) ==
    IF pf.detected_stride = 0 THEN pf.stride ELSE pf.detected_stride

\* C26: while no stride has been detected since construction or the last
\* reset(), as during the first 7 calls, prefetch(addr) of a strided
\* prefetcher issues the hints addr + i * configured stride, i = 1..distance;
\* once a stride d is detected, the hints addr + i * d, i = 1..distance.
C26_HintsFollowStride ==
    /\ ( (prefetcher.strategy = Strided
            /\ Len(prefetcher.recent_addresses) < HISTORY_SIZE)
          => prefetcher.detected_stride = 0 )
    /\ ( (returned.op = "prefetch" /\ prefetcher.strategy = Strided)
          => /\ returned.count = prefetcher.distance
             /\ returned.value.hints =
                   [ i \in 1 .. prefetcher.distance |->
                       returned.value.addr + i * SpecifiedSpacing(prefetcher) ] )

\* A strided prefetcher configured with (distance 2, stride 128) has
\* detected the stride 64 and hinted addr + 64, addr + 128.
C26_Witness ==
    /\ returned.op = "prefetch"
    /\ prefetcher.strategy = Strided
    /\ prefetcher.stride = 128
    /\ prefetcher.distance = 2
    /\ prefetcher.detected_stride = 64
    /\ returned.value.hints =
          << returned.value.addr + 64, returned.value.addr + 128 >>

-----------------------------------------------------------------------------
(* C27 *)

\* C27: in any state of a pointer-chain prefetcher, after
\* learnPointerChain(A, B) the next prefetch(A) issues a hint for B.
C27_LearnedSuccessorIsHinted ==
    [][ ( /\ returned.op = "learn"
          /\ PrefetcherCalled("prefetch")
          /\ returned'.value.addr = returned.value.base_addr )
        => returned.value.target_addr \in Range(returned'.value.hints) ]_vars

-----------------------------------------------------------------------------
(* C28 *)

\* The chains are bounded and kept in arrival order: no chain holds more
\* than 4 entries, and a learn call appends its successor to the chain of
\* its base address, dropping exactly the oldest entry of a full chain.
BoundedInArrivalOrder ==
    /\ [][ \A a \in DOMAIN prefetcher'.pointer_chains :
              Len(prefetcher'.pointer_chains[a]) <= 4 ]_vars
    /\ [][ PrefetcherCalled("learn")
            => LET before == returned'.value.before
                   after == ChainOf(prefetcher', returned'.value.base_addr)
               IN  /\ after =
                         Append(IF Len(before) < 4 THEN before ELSE Tail(before),
                                returned'.value.target_addr)
                   /\ \A a \in (DOMAIN prefetcher'.pointer_chains)
                                   \ {returned'.value.base_addr} :
                         /\ a \in DOMAIN prefetcher.pointer_chains
                         /\ prefetcher'.pointer_chains[a] =
                               prefetcher.pointer_chains[a] ]_vars

\* The step is a prefetch of the base address of the learn call before it,
\* and that learn call evicted a successor.
PrefetchAfterEviction ==
    /\ returned.op = "learn"
    /\ Len(returned.value.before) = 4
    /\ PrefetcherCalled("prefetch")
    /\ returned'.value.addr = returned.value.base_addr

-----------------------------------------------------------------------------
(* C29 *)

\* C29: prefetch(base) of a sequential prefetcher issues exactly the hints
\* base + i * stride, i = 1..distance, in that order, with the distance and
\* stride of the latest configure call; the prefetcher holds no predictive
\* state, and no call but configure changes anything the hints depend on.
C29_SequentialHints ==
    /\ []( (returned.op = "prefetch" /\ prefetcher.strategy = Sequential)
            => /\ returned.count = prefetcher.distance
               /\ \A i \in 1 .. prefetcher.distance :
                     returned.value.hints[i] =
                        returned.value.addr + i * prefetcher.stride
               /\ NoPredictions(prefetcher) )
    /\ [][ (prefetcher.strategy = Sequential /\ PrefetcherCalled("configure"))
            => /\ prefetcher'.distance = returned'.value.distance
               /\ prefetcher'.stride = returned'.value.stride ]_vars
    /\ [][ (prefetcher.strategy = Sequential /\ ~PrefetcherCalled("configure"))
            => prefetcher' = prefetcher ]_vars

\* After configure(2, 128), prefetch(64) of a sequential prefetcher has
\* issued the hints 192, 320.
C29_Witness ==
    /\ prefetcher.strategy = Sequential
    /\ returned.op = "prefetch"
    /\ returned.value.addr = 64
    /\ prefetcher.distance = 2
    /\ prefetcher.stride = 128
    /\ returned.value.hints = << 192, 320 >>

-----------------------------------------------------------------------------
(* C30 *)

\* A freshly constructed instance of the variant of pf, configured as pf is.
FreshConfiguredAs(pf) ==
    [ configure(NewPrefetcher(FALSE, pf.strategy), pf.distance, pf.stride)
        EXCEPT !.degree = pf.degree ]

\* C30: reset() clears the predictive state of the instance and nothing else:
\* the instance is then as a freshly constructed one with the same
\* configuration (a strided one has an empty window and detected stride 0, a
\* pointer-chain one no chain) and issues the same hints; a second reset()
\* changes nothing; a reset of one instance leaves the other instance alone.
C30_ResetClearsPredictiveState ==
    /\ [][ PrefetcherCalled("reset")
            => /\ prefetcher' = FreshConfiguredAs(prefetcher)
               /\ NoPredictions(prefetcher')
               /\ \A addr \in PrefetchAddresses(prefetcher') :
                     prefetch(prefetcher', addr).hints =
                        prefetch(FreshConfiguredAs(prefetcher), addr).hints
               /\ reset(prefetcher') = prefetcher'
               /\ peer' = peer ]_vars
    /\ [][ (peer' # peer /\ NoPredictions(peer')) => prefetcher' = prefetcher ]_vars

\* reset() has returned on a strided prefetcher configured with
\* (distance 2, stride 128) that had detected the stride 64, while the second
\* instance holds an address of its own.
C30_Witness ==
    /\ returned.op = "reset"
    /\ prefetcher.strategy = Strided
    /\ returned.value.before.detected_stride = 64
    /\ returned.value.before.distance = 2
    /\ prefetcher.detected_stride = 0
    /\ prefetcher.recent_addresses = << >>
    /\ prefetcher.distance = 2
    /\ prefetcher.stride = 128
    /\ ~NoPredictions(peer)

-----------------------------------------------------------------------------
(* C31 *)

\* C31: whatever configure(distance, stride) has set, a prefetch call of any
\* of the three variants issues at least one hint; a strided prefetcher
\* with no detected stride hints at the configured stride, a pointer-chain
\* prefetcher with no successor list for the address hints the next cache
\* line.
C31_PrefetchAlwaysHints ==
    returned.op = "prefetch"
    => /\ returned.count >= 1
       /\ ( (prefetcher.strategy = Strided /\ prefetcher.detected_stride = 0)
             => returned.value.hints[1] = returned.value.addr + prefetcher.stride )
       /\ ( (prefetcher.strategy = IMA
               /\ returned.value.addr \notin DOMAIN prefetcher.pointer_chains)
             => returned.value.hints =
                   << returned.value.addr + prefetcher.stride >> )

-----------------------------------------------------------------------------
(* The claims about the components beside the controller *)

\* C32: on a monitor whose initialize succeeded, after startMonitoring
\* returned true, the caller's work ran and stopMonitoring returned true,
\* getSamples() is not empty and getCurrentPhase() is the phase of the newest
\* sample.
C32_SamplesCollectedWhileMonitoring ==
    (returned.op = "getSamples" /\ returned.session = "stopped")
    => /\ returned.count >= 1
       /\ returned.value.phase = returned.value.samples[returned.count].phase

\* C36: startMonitoring returns false and changes nothing on a monitor that
\* is not initialized or is already monitoring; stopMonitoring returns true,
\* and changes nothing when not monitoring; initialize on an initialized
\* monitor returns true and opens nothing, and returns false and leaves the
\* monitor uninitialized when no event could be opened; a monitoring monitor
\* is an initialized one.
C36_MonitorLifecycle ==
    /\ monitor.monitoring => monitor.initialized
    /\ ( returned.op = "startMonitoring"
           /\ (~returned.value.before.initialized \/ returned.value.before.monitoring) )
        => (~returned.value.result /\ monitor = returned.value.before)
    /\ returned.op = "stopMonitoring"
        => /\ returned.value.result
           /\ ~monitor.monitoring
           /\ ~returned.value.before.monitoring => monitor = returned.value.before
    /\ (returned.op = "initialize" /\ returned.value.before.initialized)
        => (returned.value.result /\ monitor = returned.value.before)
    /\ ( returned.op = "initialize" /\ ~returned.value.before.initialized
           /\ returned.count = 0 )
        => (~returned.value.result /\ ~monitor.initialized /\ ~monitor.monitoring)

\* startMonitoring was refused on a monitor that was already monitoring.
C36_Witness ==
    /\ returned.op = "startMonitoring"
    /\ returned.value.before.monitoring
    /\ ~returned.value.result
    /\ monitor.monitoring

\* The vertices a path of at most k edges of the list leads to from source.
RECURSIVE ReachedWithin(_, _, _)
ReachedWithin(edges, source, k) ==
    IF k = 0 THEN {source}
    ELSE LET near == ReachedWithin(edges, source, k - 1)
         IN  near \cup { e[2] : e \in { f \in Range(edges) : f[1] \in near } }

\* The length of a shortest path from source to v, -1 when there is none.
ShortestDistance(edges, source, v, num_vertices) ==
    IF v \notin ReachedWithin(edges, source, num_vertices) THEN -1
    ELSE CHOOSE k \in 0 .. num_vertices :
            /\ v \in ReachedWithin(edges, source, k)
            /\ \A j \in 0 .. k - 1 : v \notin ReachedWithin(edges, source, j)

\* C33: on a graph built by buildFromEdges from edges in range, BFS::run from
\* a source that is a vertex gives every vertex its shortest-path distance,
\* -1 exactly to the vertices no path reaches, makes the source its own
\* parent, and BFS::validate accepts the result; a source that is no vertex
\* raises an error.
C33_BfsShortestPaths ==
    returned.op = "BFS::run"
    => IF returned.value.source >= graph.num_vertices
       THEN returned.value.thrown
       ELSE /\ ~returned.value.thrown
            /\ \A v \in 0 .. graph.num_vertices - 1 :
                   At(returned.value.distances, v)
                     = ShortestDistance(graph.edges, returned.value.source, v,
                                        graph.num_vertices)
            /\ At(returned.value.parents, returned.value.source) = returned.value.source
            /\ returned.value.valid

\* A traversal that found a vertex two edges away and left one unreached.
C33_Witness ==
    /\ returned.op = "BFS::run"
    /\ ~returned.value.thrown
    /\ 2 \in Range(returned.value.distances)
    /\ -1 \in Range(returned.value.distances)
    /\ returned.value.valid

\* C34: validate() returns true for a default-constructed graph and for
\* every graph built by buildFromEdges from edges whose endpoints are all
\* vertices.
C34_ValidateAcceptsWellFormed ==
    (returned.op = "CSRGraph::validate" /\ EdgesInRange(graph))
    => returned.value.result

\* C35: PageRank::run(max_iterations) with max_iterations >= 1 reports a
\* number of iterations in 1 .. max_iterations, whether or not the residual
\* fell below the tolerance.
C35_IterationsWithinLimit ==
    returned.op = "PageRank::run"
    => (0 < returned.count /\ returned.count <= returned.value.max_iterations)

-----------------------------------------------------------------------------
(* The claims about what the controller's code implies *)

C38_SmallHistoryNeverAdapts ==
    config.history_size < MIN_SAMPLES
    => /\ Len(metrics_history) < MIN_SAMPLES
       /\ current_phase = UNKNOWN
       /\ total_adaptations = 0
       /\ phase_changes = 0
       /\ loop.pc \notin {"set_distance", "set_degree", "set_phase", "count"}
       /\ pf_writer.distance # "loop"
       /\ pf_writer.degree # "loop"

\* The loop has taken more than 10 samples into a history of capacity below 10.
C38_Witness ==
    /\ config.history_size < MIN_SAMPLES
    /\ Len(samples_log) > MIN_SAMPLES
    /\ Len(metrics_history) = config.history_size
    /\ loop.pc = "sleep"

\* What a hintPhase call must leave alone: everything of the controller but
\* the prefetcher, and everything of the prefetcher but distance and degree.
HintFrame ==
    /\ UNCHANGED << config, current_phase, is_adapting, total_adaptations,
                    metrics_history, adaptation_thread, loop, monitor >>
    /\ [prefetcher' EXCEPT !.distance = prefetcher.distance,
                           !.degree = prefetcher.degree] = prefetcher

\* C39: hintPhase(p) changes only the distance and the degree of the
\* prefetcher; the current phase, the adaptation counter and the history are
\* as before; hintPhase(Unknown), and hintPhase on a controller without a
\* prefetcher, change nothing.
C39_HintChangesOnlyThePair ==
    /\ [][ (calls'.hintPhase = calls.hintPhase + 1) => HintFrame ]_vars
    /\ [][ (main.pc = "hint_degree" /\ main'.pc = "idle") => HintFrame ]_vars
    /\ [][ (calls'.hintPhase = calls.hintPhase + 1 /\ prefetcher.null)
             => UNCHANGED << prefetcher, main >> ]_vars
    /\ [][ hintPhase(UNKNOWN) => (HintFrame /\ UNCHANGED << prefetcher, main >>) ]_vars

\* A hint was applied in full while the loop had samples in its history, and
\* committed nothing.
C39_Witness ==
    /\ calls.hintPhase >= 1
    /\ main.pc = "idle"
    /\ pf_writer.distance = "main"
    /\ pf_writer.degree = "main"
    /\ metrics_history # << >>
    /\ current_phase = UNKNOWN
    /\ << prefetcher.distance, prefetcher.degree >> = TablePair(DENSE_SEQUENTIAL)

\* C40: whenever no tick and no hint is in progress and the current phase is
\* not Unknown, the prefetcher's distance and degree are the pair of the
\* table for the current phase.
C40_PhaseMatchesStrategy ==
    ( /\ loop.pc \notin {"set_distance", "set_degree", "set_phase", "count"}
      /\ main.pc # "hint_degree"
      /\ ~prefetcher.null
      /\ current_phase # UNKNOWN )
    => << prefetcher.distance, prefetcher.degree >> = TablePair(current_phase)


=============================================================================
